---- MODULE Spec2Model ----
(***************************************************************************)
(* AVF hemodynamics simulator: the computational core (flow solver, blood  *)
(* properties, geometry wall points, WSS/OSI/RRT orchestrator).            *)
(*                                                                         *)
(* Numbers.  The program computes with IEEE-754 doubles.  The model keeps  *)
(* the same operations in the same order on decimal floating-point numbers *)
(* <<m, e>> (value m * 10^e) with a six-digit significand, rounded to      *)
(* nearest after every operation.  A number is either <<0, 0>> or has      *)
(* 10^5 <= |m| < 10^6.  Statements about equalities of computed reals are  *)
(* therefore stated with the rounding tolerance of this arithmetic.        *)
(***************************************************************************)
EXTENDS Integers, Sequences, FiniteSets, TLC

(***************************************************************************)
(* Decimal floating point                                                  *)
(***************************************************************************)
E3 == 10 * 100

Abs(n) == IF n < 0 THEN -n ELSE n
Sgn(n) == IF n < 0 THEN -1 ELSE 1

RECURSIVE Pow10(_)
Pow10(k) == IF k <= 0 THEN 1 ELSE 10 * Pow10(k - 1)

Zero == <<0, 0>>

\* round-to-nearest division of a non-negative integer
RDiv(n, d) == (n + d \div 2) \div d

RECURSIVE Norm(_, _)
Norm(m, e) ==
  IF m = 0 THEN <<0, 0>>
  ELSE IF m >= 1000000 THEN Norm((m + 5) \div 10, e + 1)
  ELSE IF m <= -1000000 THEN Norm(-((5 - m) \div 10), e + 1)
  ELSE IF m < 100000 /\ m > -100000 THEN Norm(m * 10, e - 1)
  ELSE <<m, e>>

\* an integer, and an integer scaled by a power of ten (n * 10^k)
I(n) == Norm(n, 0)
D(n, k) == Norm(n, k)

Neg(a) == <<-a[1], a[2]>>
FAbs(a) == <<Abs(a[1]), a[2]>>

\* the leading digits of the twelve-digit product x * y, computed in halves
\* of three digits (hi * 10^6 + t) and rounded to six or seven digits
MulRound(hi, t) ==
  IF hi + t \div 1000000 >= 100000
    THEN 10 * (hi + (t + 500000) \div 1000000)
    ELSE hi * 10 + (t + 50000) \div 100000
MulHalves(xh, xl, yh, yl) ==
  MulRound(xh * yh, (xh * yl + xl * yh) * 1000 + xl * yl)

Mul(a, b) ==
  IF a[1] = 0 \/ b[1] = 0 THEN <<0, 0>>
  ELSE Norm(Sgn(a[1]) * Sgn(b[1])
              * MulHalves(Abs(a[1]) \div 1000, Abs(a[1]) % 1000,
                          Abs(b[1]) \div 1000, Abs(b[1]) % 1000),
            a[2] + b[2] + 5)

\* long division: k further groups of three digits, then round to nearest
RECURSIVE DivDigits(_, _, _, _)
DivDigits(q, r, y, k) ==
  IF k = 0 THEN IF 2 * r >= y THEN q + 1 ELSE q
  ELSE DivDigits(q * 1000 + (r * 1000) \div y, (r * 1000) % y, y, k - 1)

Div(a, b) ==
  IF a[1] = 0 THEN <<0, 0>>
  ELSE Norm(Sgn(a[1]) * Sgn(b[1])
              * DivDigits(Abs(a[1]) \div Abs(b[1]), Abs(a[1]) % Abs(b[1]),
                          Abs(b[1]), 2),
            a[2] - b[2] - 6)

\* the sum of two numbers, the first with the larger exponent, d apart
AddAligned(big, sml, d) ==
  IF d >= 8 THEN big
  ELSE Norm(IF d <= 3 THEN big[1] * Pow10(d) + sml[1]
            ELSE big[1] * 1000
                   + Sgn(sml[1]) * ((Abs(sml[1]) + Pow10(d - 3) \div 2)
                                      \div Pow10(d - 3)),
            IF d <= 3 THEN sml[2] ELSE big[2] - 3)

Add(a, b) ==
  IF a[1] = 0 THEN b
  ELSE IF b[1] = 0 THEN a
  ELSE AddAligned(IF a[2] >= b[2] THEN a ELSE b,
                  IF a[2] >= b[2] THEN b ELSE a, Abs(a[2] - b[2]))

Sub(a, b) == Add(a, <<-b[1], b[2]>>)

\* exact comparison of two normalised numbers
Lt(a, b) ==
  IF a[1] > 0 /\ b[1] > 0
    THEN a[2] < b[2] \/ (a[2] = b[2] /\ a[1] < b[1])
  ELSE IF a[1] < 0 /\ b[1] < 0
    THEN a[2] > b[2] \/ (a[2] = b[2] /\ a[1] < b[1])
  ELSE a[1] < b[1]
Le(a, b) == ~Lt(b, a)
Gt(a, b) == Lt(b, a)
Ge(a, b) == ~Lt(a, b)
FMax(a, b) == IF Lt(a, b) THEN b ELSE a
FMin(a, b) == IF Lt(b, a) THEN b ELSE a

\* nearest integer of a number of moderate size
RoundInt(a) ==
  IF a[1] = 0 THEN 0
  ELSE IF a[2] >= 0 THEN a[1] * Pow10(a[2])
  ELSE IF a[2] < -9 THEN 0
  ELSE Sgn(a[1]) * RDiv(Abs(a[1]), Pow10(-a[2]))

\* integer square root by Newton's iteration (n >= 1, s0 >= sqrt(n))
RECURSIVE ISqrt(_, _)
ISqrt(n, s) ==
  LET t == (s + n \div s) \div 2
  IN IF t >= s THEN s ELSE ISqrt(n, t)

FSqrt(a) ==
  IF a[1] <= 0 THEN Zero
  ELSE LET odd == a[2] % 2 # 0
           n == IF odd THEN a[1] * E3 ELSE a[1] * 100
           e == IF odd THEN a[2] - 3 ELSE a[2] - 2
           Newton(s0) == Div(Add(s0, Div(a, s0)), I(2))
       IN Newton(Norm(ISqrt(n, 40 * E3), e \div 2))

PI == <<314159, -5>>
PI_LO == <<265359, -11>>
TWO_PI == <<628319, -5>>
TWO_PI_HI == <<628000, -5>>
TWO_PI_LO == <<318531, -8>>
HALF_PI == <<157080, -5>>
LN10 == <<230259, -5>>

\* odd Taylor polynomial of the sine on [-pi/2, pi/2]
SinPoly(r) ==
  LET c11 == <<-250521, -13>>
      c9 == <<275573, -11>>
      c7 == <<-198413, -9>>
      c5 == <<833333, -8>>
      c3 == <<-166667, -6>>
      Poly(r2) ==
        Add(r, Mul(r, Mul(r2,
          Add(c3, Mul(r2, Add(c5, Mul(r2, Add(c7, Mul(r2,
            Add(c9, Mul(r2, c11)))))))))))
  IN Poly(Mul(r, r))

FSin(x) ==
  LET Reduced(k) ==
        Sub(Sub(x, Mul(I(k), TWO_PI_HI)), Mul(I(k), TWO_PI_LO))
      Folded(r) ==
        IF Gt(r, HALF_PI) THEN Add(Sub(PI, r), PI_LO)
        ELSE IF Lt(r, Neg(HALF_PI)) THEN Sub(Sub(Neg(PI), r), PI_LO)
        ELSE r
  IN SinPoly(Folded(Reduced(RoundInt(Div(x, TWO_PI)))))

FCos(x) == FSin(Add(x, HALF_PI))

\* natural logarithm (a > 0): ln(m * 10^e) = ln f + k * ln 10 / 8 + ...
LnSeries(f) ==
  LET Series(z, z2) ==
        Mul(I(2), Mul(z,
          Add(I(1), Mul(z2, Add(<<333333, -6>>, Mul(z2,
            Add(<<200000, -6>>, Mul(z2, <<142857, -6>>))))))))
      Odd(z) == Series(z, Mul(z, z))
  IN Odd(Div(Sub(f, I(1)), Add(f, I(1))))

FLn(a) ==
  LET Step(fe, c, w) ==
        IF Ge(fe[1], c) THEN <<Div(fe[1], c), fe[2] + w>> ELSE fe
      Final(fe) == Add(LnSeries(fe[1]), Mul(I(fe[2]), <<287823, -6>>))
  IN Final(Step(Step(Step(<< <<a[1], -5>>, 8 * (a[2] + 5) >>,
                          <<316228, -5>>, 4),
                     <<177828, -5>>, 2),
                <<133352, -5>>, 1))

\* exponential: e^x = 10^k * (e^(r/8))^8 with x = k ln 10 + r
FExp(x) ==
  LET Reduced(k) ==
        Div(Sub(Sub(x, Mul(I(k), <<230258, -5>>)),
                Mul(I(k), <<509299, -11>>)), I(8))
      Poly(h) ==
        Add(I(1), Mul(h, Add(I(1), Mul(h, Add(<<500000, -6>>, Mul(h,
          Add(<<166667, -6>>, Mul(h,
            Add(<<416667, -7>>, Mul(h, <<833333, -8>>))))))))))
      Square(y) == Mul(y, y)
      Scaled(y8, k) == IF y8[1] = 0 THEN Zero ELSE <<y8[1], y8[2] + k>>
      Exp(k) == Scaled(Square(Square(Square(Poly(Reduced(k))))), k)
  IN Exp(RoundInt(Div(x, LN10)))

\* Math.pow for a positive base and a real exponent
FPow(a, y) == FExp(Mul(y, FLn(a)))
Sq(a) == Mul(a, a)
Pow4(a) == Sq(Sq(a))

(***************************************************************************)
(* Flow solver                                                             *)
(***************************************************************************)
\* nominal branch lengths (mm) of the parallel-resistance model
veinLength == I(100)
distalLength == I(80)

\* a plausible slip: the vein conductance in the numerator without the
\* angle correction that the total conductance carries
VeinFractionUncorrected(p) ==
  LET arteryRadius == Div(p.arteryDiameter, I(2))
      veinRadius == Div(p.veinDiameter, I(2))
      angleRad == Div(Mul(p.anastomosisAngle, PI), I(180))
      R_vein == Div(veinLength, Pow4(veinRadius))
      R_distal == Div(distalLength, Pow4(Mul(arteryRadius, D(8, -1))))
      angleCorrection ==
        Add(I(1), Mul(D(5, -1), Sq(Div(angleRad, Div(PI, I(2))))))
      Fraction(R_vein_bare, R_vein_effective) ==
        Div(Div(I(1), R_vein_bare),
            Add(Div(I(1), R_vein_effective), Div(I(1), R_distal)))
      Corrected(R_vein_bare) ==
        Fraction(R_vein_bare, Mul(R_vein_bare, angleCorrection))
  IN Corrected(R_vein)

\* veinFraction of calculateFlowSplit: the vein's share of the conductance
VeinFraction(p) ==
  LET arteryRadius == Div(p.arteryDiameter, I(2))
      veinRadius == Div(p.veinDiameter, I(2))
      angleRad == Div(Mul(p.anastomosisAngle, PI), I(180))
      R_vein == Div(veinLength, Pow4(veinRadius))
      R_distal == Div(distalLength, Pow4(Mul(arteryRadius, D(8, -1))))
      angleCorrection ==
        Add(I(1), Mul(D(5, -1), Sq(Div(angleRad, Div(PI, I(2))))))
      Fraction(R_vein_effective) ==
        Div(Div(I(1), R_vein_effective),
            Add(Div(I(1), R_vein_effective), Div(I(1), R_distal)))
  IN Fraction(Mul(R_vein, angleCorrection))

\* calculateFlowSplit(params)
calculateFlowSplit(p) ==
  LET Split(veinFraction) ==
        [veinFlowRate |-> Mul(p.bloodFlowRate, veinFraction),
         distalFlowRate |-> Mul(p.bloodFlowRate, Sub(I(1), veinFraction)),
         veinFraction |-> veinFraction]
  IN Split(VeinFraction(p))

\* Fourier amplitudes and the minimum flow multiplier of the waveform
A2 == D(25, -2)
A3 == D(1, -1)
MinFlow == D(15, -2)

\* one floored sample q of generatePulsatileWaveform (i = 0 .. numSteps-1)
WaveSample(i, heartRate, systolicRatio, numSteps) ==
  LET A1 == Mul(D(6, -1), Div(systolicRatio, D(35, -2)))
      Q(phase) ==
        Add(Add(Add(I(1), Mul(A1, FSin(phase))),
                Mul(A2, FSin(Sub(Mul(I(2), phase), D(3, -1))))),
            Mul(A3, FSin(Sub(Mul(I(3), phase), D(6, -1)))))
      Phase(T) ==
        Div(Mul(Mul(I(2), PI), Mul(Div(I(i), I(numSteps)), T)), T)
  IN FMax(Q(Phase(Div(I(60), heartRate))), MinFlow)

\* the callbacks of the reductions: (a, b) => a + b, Math.max, Math.min
Combine(op, a, b) ==
  CASE op = "sum" -> Add(a, b)
    [] op = "max" -> FMax(a, b)
    [] op = "min" -> FMin(a, b)

\* The left fold of the callback op over s[lo..hi] onto acc, in index
\* order.  The range is halved only to keep the evaluation shallow, and the
\* test of left only fixes left before the right half is folded onto it.
RECURSIVE Fold(_, _, _, _, _)
Fold(op, acc, s, lo, hi) ==
  IF hi < lo THEN acc
  ELSE IF lo = hi THEN Combine(op, acc, s[lo])
  ELSE LET mid == (lo + hi) \div 2
           Onto(left) ==
             IF left = left THEN Fold(op, left, s, mid + 1, hi) ELSE left
       IN Onto(Fold(op, acc, s, lo, mid))

\* the mean of a non-empty sequence: reduce((a, b) => a + b) / length
Mean(s) == Div(Fold("sum", Zero, s, 1, Len(s)), I(Len(s)))
\* Math.max(...s) and Math.min(...s) of a non-empty s
MaxOf(s) == Fold("max", s[1], s, 1, Len(s))
MinOf(s) == Fold("min", s[1], s, 1, Len(s))

\* the floored samples of generatePulsatileWaveform, before normalisation
FlooredWaveform(heartRate, systolicRatio, numSteps) ==
  [i \in 1..numSteps |->
     WaveSample(i - 1, heartRate, systolicRatio, numSteps)] \o <<>>

\* a plausible slip: the floored samples returned without the normalisation
generatePulsatileWaveformRaw(heartRate, systolicRatio, numSteps) ==
  FlooredWaveform(heartRate, systolicRatio, numSteps)

\* a plausible slip: the samples normalised to a peak of 1, not to a mean of 1
generatePulsatileWaveformPeakNormalised(heartRate, systolicRatio, numSteps) ==
  LET Scaled(waveform, peak) ==
        [i \in 1..numSteps |-> Div(waveform[i], peak)] \o <<>>
      Normalised(waveform) == Scaled(waveform, MaxOf(waveform))
  IN Normalised(FlooredWaveform(heartRate, systolicRatio, numSteps))

\* generatePulsatileWaveform(heartRate, systolicRatio, numSteps)
generatePulsatileWaveform(heartRate, systolicRatio, numSteps) ==
  LET Scaled(waveform, mean) ==
        [i \in 1..numSteps |-> Div(waveform[i], mean)] \o <<>>
      Normalised(waveform) == Scaled(waveform, Mean(waveform))
  IN Normalised(FlooredWaveform(heartRate, systolicRatio, numSteps))

(***************************************************************************)
(* Blood properties                                                        *)
(***************************************************************************)
\* CARREAU (Cho & Kensey): mu_inf, mu_0 (Pa s), lambda (s), n
CARREAU ==
  [mu_inf |-> D(345, -5), mu_0 |-> D(56, -3), lambda |-> D(3313, -3),
   n |-> D(3568, -4)]

\* HCT_VISCOSITY_TABLE: hematocrit in percent -> mu_inf, mu_0
HCT_VISCOSITY_TABLE ==
  << [hct |-> I(20), mu_inf |-> D(220, -5), mu_0 |-> D(25, -3)],
     [hct |-> I(25), mu_inf |-> D(260, -5), mu_0 |-> D(32, -3)],
     [hct |-> I(30), mu_inf |-> D(280, -5), mu_0 |-> D(37, -3)],
     [hct |-> I(35), mu_inf |-> D(300, -5), mu_0 |-> D(42, -3)],
     [hct |-> I(40), mu_inf |-> D(320, -5), mu_0 |-> D(48, -3)],
     [hct |-> I(45), mu_inf |-> D(345, -5), mu_0 |-> D(56, -3)],
     [hct |-> I(50), mu_inf |-> D(400, -5), mu_0 |-> D(65, -3)],
     [hct |-> I(55), mu_inf |-> D(450, -5), mu_0 |-> D(75, -3)] >>

BLOOD_DENSITY == I(1060)

\* the interpolation loop of interpolateHctParams (lines 253-263): the
\* first bracket [table[i].hct, table[i+1].hct] that holds hct
InterpolateInTable(hct) ==
  LET table == HCT_VISCOSITY_TABLE
      Between(i, frac) ==
        [mu_inf |-> Add(table[i].mu_inf,
                        Mul(frac, Sub(table[i + 1].mu_inf, table[i].mu_inf))),
         mu_0 |-> Add(table[i].mu_0,
                      Mul(frac, Sub(table[i + 1].mu_0, table[i].mu_0)))]
      InBracket(i) ==
        Between(i, Div(Sub(hct, table[i].hct),
                       Sub(table[i + 1].hct, table[i].hct)))
      First(hits) ==
        IF hits = {} THEN [mu_inf |-> CARREAU.mu_inf, mu_0 |-> CARREAU.mu_0]
        ELSE InBracket(CHOOSE j \in hits : \A k \in hits : j <= k)
  IN First({i \in 1..(Len(table) - 1) :
              Ge(hct, table[i].hct) /\ Le(hct, table[i + 1].hct)})

\* a plausible slip: no clamp at the table's ends, the end brackets are
\* extended linearly instead
interpolateHctParamsExtrapolating(hct) ==
  LET table == HCT_VISCOSITY_TABLE
      n == Len(table)
      Between(i, frac) ==
        [mu_inf |-> Add(table[i].mu_inf,
                        Mul(frac, Sub(table[i + 1].mu_inf, table[i].mu_inf))),
         mu_0 |-> Add(table[i].mu_0,
                      Mul(frac, Sub(table[i + 1].mu_0, table[i].mu_0)))]
      InBracket(i) ==
        Between(i, Div(Sub(hct, table[i].hct),
                       Sub(table[i + 1].hct, table[i].hct)))
  IN InBracket(IF Le(hct, table[1].hct) THEN 1
               ELSE IF Ge(hct, table[n].hct) THEN n - 1
               ELSE CHOOSE j \in 1..(n - 1) :
                      Ge(hct, table[j].hct) /\ Lt(hct, table[j + 1].hct))

\* interpolateHctParams(hct)
interpolateHctParams(hct) ==
  LET table == HCT_VISCOSITY_TABLE
  IN IF Le(hct, table[1].hct)
       THEN [mu_inf |-> table[1].mu_inf, mu_0 |-> table[1].mu_0]
     ELSE IF Ge(hct, table[Len(table)].hct)
       THEN [mu_inf |-> table[Len(table)].mu_inf,
             mu_0 |-> table[Len(table)].mu_0]
     ELSE InterpolateInTable(hct)

\* the Carreau law with the sign of its exponent lost: a viscosity that grows
\* with the shear rate
carreauViscosityThickening(shearRate, hct) ==
  LET gammaDotClamped == FMax(shearRate, D(1, -1))
      term == Add(I(1), Sq(Mul(CARREAU.lambda, gammaDotClamped)))
      Viscosity(mu) ==
        Add(mu.mu_inf,
            Mul(Sub(mu.mu_0, mu.mu_inf),
                FPow(term, Div(Sub(I(1), CARREAU.n), I(2)))))
  IN Viscosity(interpolateHctParams(hct))

\* carreauViscosity(shearRate, hct)
carreauViscosity(shearRate, hct) ==
  LET gammaDotClamped == FMax(shearRate, D(1, -1))
      term == Add(I(1), Sq(Mul(CARREAU.lambda, gammaDotClamped)))
      Viscosity(mu) ==
        Add(mu.mu_inf,
            Mul(Sub(mu.mu_0, mu.mu_inf),
                FPow(term, Div(Sub(CARREAU.n, I(1)), I(2)))))
  IN Viscosity(interpolateHctParams(hct))

\* wallShearRate(flowRate_m3s, radius_m)
wallShearRate(flowRate_m3s, radius_m) ==
  LET newtonianShearRate ==
        Div(Mul(I(4), flowRate_m3s),
            Mul(PI, Mul(Mul(radius_m, radius_m), radius_m)))
      correction == Div(Add(Mul(I(3), CARREAU.n), I(1)),
                        Mul(I(4), CARREAU.n))
  IN Mul(correction, newtonianShearRate)

\* meanVelocity(flowRate_m3s, radius_m)
meanVelocity(flowRate_m3s, radius_m) ==
  Div(flowRate_m3s, Mul(Mul(PI, radius_m), radius_m))

\* reynoldsNumber(velocity, diameter_m, viscosity)
reynoldsNumber(velocity, diameter_m, viscosity) ==
  Div(Mul(Mul(BLOOD_DENSITY, velocity), diameter_m), viscosity)

\* mL/min -> m^3/s
ToM3s(flowRate_mLmin) == Div(flowRate_mLmin, Mul(D(1, 6), I(60)))

\* an under-relaxed loop, each pass averaging the new viscosity with that of
\* the pass before: a loop whose passes do differ
RECURSIVE BloodIterationRelaxed(_, _, _, _)
BloodIterationRelaxed(k, flowRate_m3s, radius_m, hct) ==
  IF k = 0 THEN [shearRate |-> Zero, viscosity |-> CARREAU.mu_inf]
  ELSE LET Pass(shearRate, before) ==
             [shearRate |-> shearRate,
              viscosity |-> Div(Add(before.viscosity,
                                    carreauViscosity(shearRate, hct)), I(2))]
       IN Pass(wallShearRate(flowRate_m3s, radius_m),
               BloodIterationRelaxed(k - 1, flowRate_m3s, radius_m, hct))

\* the pair (shearRate, viscosity) after k passes of the loop of
\* calculateBloodProperties; the body reads neither value of the pass before
RECURSIVE BloodIteration(_, _, _, _)
BloodIteration(k, flowRate_m3s, radius_m, hct) ==
  IF k = 0 THEN [shearRate |-> Zero, viscosity |-> CARREAU.mu_inf]
  ELSE LET Pass(shearRate) ==
             [shearRate |-> shearRate,
              viscosity |-> carreauViscosity(shearRate, hct)]
       IN Pass(wallShearRate(flowRate_m3s, radius_m))

\* calculateBloodProperties(flowRate_mLmin, diameter_mm, hct)
calculateBloodProperties(flowRate_mLmin, diameter_mm, hct) ==
  LET diameter_m == Mul(diameter_mm, D(1, -3))
      Properties(it, velocity) ==
        [viscosity |-> it.viscosity,
         density |-> BLOOD_DENSITY,
         reynoldsNumber |->
           reynoldsNumber(velocity, diameter_m, it.viscosity),
         shearRate |-> it.shearRate]
      Iterate(flowRate_m3s, radius_m) ==
        Properties(BloodIteration(5, flowRate_m3s, radius_m, hct),
                   meanVelocity(flowRate_m3s, radius_m))
  IN Iterate(ToM3s(flowRate_mLmin), Mul(Div(diameter_mm, I(2)), D(1, -3)))

(***************************************************************************)
(* Geometry                                                                *)
(***************************************************************************)
\* CANVAS
CANVAS == [width |-> I(800), height |-> I(500), vesselScale |-> I(28)]

numArteryPts == 60
numVeinPts == 50
veinCurveLength == I(350)
\* sample count argument of generateSmoothConnection (numPts + 1 points)
numToePts == 15
\* the samples of each vein wall that generateWallPoints skips (i < 3)
veinSkip == 3

RegionTypes ==
  {"proximal_artery", "distal_artery", "vein_outer", "vein_inner",
   "anastomosis_toe", "anastomosis_heel", "anastomosis_floor",
   "anastomosis_outer"}

Pt(x, y) == [x |-> x, y |-> y]

\* cubicBezier(t, p0, p1, p2, p3)
cubicBezier(t, p0, p1, p2, p3) ==
  LET Blend(b0, b1, b2, b3) ==
        Pt(Add(Add(Add(Mul(b0, p0.x), Mul(b1, p1.x)), Mul(b2, p2.x)),
               Mul(b3, p3.x)),
           Add(Add(Add(Mul(b0, p0.y), Mul(b1, p1.y)), Mul(b2, p2.y)),
               Mul(b3, p3.y)))
      Basis(mt, mt2, t2) ==
        Blend(Mul(mt2, mt), Mul(Mul(I(3), mt2), t), Mul(Mul(I(3), mt), t2),
              Mul(t2, t))
      Powers(mt) == Basis(mt, Mul(mt, mt), Mul(t, t))
  IN Powers(Sub(I(1), t))

\* cubicBezierTangent(t, p0, p1, p2, p3): the normalised derivative
cubicBezierTangent(t, p0, p1, p2, p3) ==
  LET Unit(dx, dy, len) == Pt(Div(dx, len), Div(dy, len))
      Normalised(dx, dy) ==
        Unit(dx, dy, FSqrt(Add(Mul(dx, dx), Mul(dy, dy))))
      Derivative(c0, c1, c2) ==
        Normalised(
          Add(Add(Mul(c0, Sub(p1.x, p0.x)), Mul(c1, Sub(p2.x, p1.x))),
              Mul(c2, Sub(p3.x, p2.x))),
          Add(Add(Mul(c0, Sub(p1.y, p0.y)), Mul(c1, Sub(p2.y, p1.y))),
              Mul(c2, Sub(p3.y, p2.y))))
      Coefficients(mt) ==
        Derivative(Mul(I(3), Mul(mt, mt)), Mul(Mul(I(6), mt), t),
                   Mul(I(3), Mul(t, t)))
  IN Coefficients(Sub(I(1), t))

\* anastomosis point of the canvas
GeoCx == Div(CANVAS.width, I(2))
GeoCy == Mul(CANVAS.height, D(65, -2))
arteryLength == Mul(CANVAS.width, D(8, -1))

\* degrees -> radians, as every component converts the angle
AngleRad(anastomosisAngle) == Div(Mul(anastomosisAngle, PI), I(180))

\* arteryCenterline of generateGeometry (index 1 .. numArteryPts)
ArteryCenterline ==
  LET Line(cx, cy, length) ==
        [k \in 1..numArteryPts |->
           Pt(Add(Sub(cx, Div(length, I(2))),
                  Mul(Div(I(k - 1), I(numArteryPts - 1)), length)),
              cy)] \o <<>>
  IN Line(GeoCx, GeoCy, arteryLength)

\* control points of the vein centerline
VeinControl(angleRad) ==
  LET Control(cx, cy, p3) ==
        [p0 |-> Pt(cx, cy),
         p1 |-> Pt(Add(cx, Mul(Mul(FCos(Sub(PI, angleRad)),
                                   veinCurveLength), D(4, -1))),
                   Sub(cy, Mul(Mul(FSin(angleRad), veinCurveLength),
                               D(4, -1)))),
         p2 |-> Pt(Add(p3.x, Mul(veinCurveLength, D(4, -1))), p3.y),
         p3 |-> p3]
  IN Control(GeoCx, GeoCy,
             Pt(Sub(GeoCx, Mul(veinCurveLength, D(8, -1))),
                Sub(GeoCy, Mul(veinCurveLength, D(8, -1)))))

\* veinCenterline and veinNormals of generateGeometry
VeinCenterline(angleRad) ==
  LET Curve(c) ==
        [k \in 1..numVeinPts |->
           cubicBezier(Div(I(k - 1), I(numVeinPts - 1)),
                       c.p0, c.p1, c.p2, c.p3)] \o <<>>
  IN Curve(VeinControl(angleRad))

VeinNormals(angleRad) ==
  LET Normal(tangent) == Pt(Neg(tangent.y), tangent.x)
      Curve(c) ==
        [k \in 1..numVeinPts |->
           Normal(cubicBezierTangent(Div(I(k - 1), I(numVeinPts - 1)),
                                     c.p0, c.p1, c.p2, c.p3))] \o <<>>
  IN Curve(VeinControl(angleRad))

\* a wall of the vein: the centerline offset by sign * veinRadius * normal
VeinWall(centerline, normals, veinRadius, sign) ==
  [k \in 1..Len(centerline) |->
     IF sign > 0
       THEN Pt(Add(centerline[k].x, Mul(veinRadius, normals[k].x)),
               Add(centerline[k].y, Mul(veinRadius, normals[k].y)))
       ELSE Pt(Sub(centerline[k].x, Mul(veinRadius, normals[k].x)),
               Sub(centerline[k].y, Mul(veinRadius, normals[k].y)))] \o <<>>

\* generateSmoothConnection(arteryWall, veinWall, cx, toeY, numPts)
generateSmoothConnection(veinWall, cx, toeY, numPts) ==
  LET Connection(arteryPt, veinPt) ==
        [k \in 1..(numPts + 1) |->
           cubicBezier(Div(I(k - 1), I(numPts)), arteryPt,
                       Pt(Add(arteryPt.x, I(20)), arteryPt.y),
                       Pt(Add(veinPt.x, I(10)), Add(veinPt.y, I(10))),
                       veinPt)] \o <<>>
  IN Connection(Pt(Add(cx, I(5)), toeY),
                veinWall[(IF 5 < Len(veinWall) - 1 THEN 5
                          ELSE Len(veinWall) - 1) + 1])

\* the opening divided by the cosine of the angle instead of its sine: the
\* width that does blow up as the angle approaches 90 degrees
modifyArteryWallForAnastomosisByCosine(upperWall, cx, veinRadius, angleRad, arteryRadius) ==
  LET Lowered(heelX, toeX, drop) ==
        [k \in 1..Len(upperWall) |->
           IF Gt(upperWall[k].x, heelX) /\ Lt(upperWall[k].x, toeX)
             THEN Pt(upperWall[k].x, Add(upperWall[k].y, drop))
             ELSE upperWall[k]] \o <<>>
      Opening(halfOpening) ==
        Lowered(Sub(cx, Mul(halfOpening, D(8, -1))),
                Add(cx, Mul(halfOpening, D(8, -1))),
                Mul(arteryRadius, D(8, -1)))
      openingWidth == Div(Mul(veinRadius, I(2)), FCos(angleRad))
  IN Opening(Div(openingWidth, I(2)))

\* an opening lowered by 0.08 of the artery radius only: a drop that stays
\* below the 5 units generateWallPoints tells the opening by
modifyArteryWallForAnastomosisShallow(upperWall, cx, veinRadius, angleRad, arteryRadius) ==
  LET Lowered(heelX, toeX, drop) ==
        [k \in 1..Len(upperWall) |->
           IF Gt(upperWall[k].x, heelX) /\ Lt(upperWall[k].x, toeX)
             THEN Pt(upperWall[k].x, Add(upperWall[k].y, drop))
             ELSE upperWall[k]] \o <<>>
      Opening(halfOpening) ==
        Lowered(Sub(cx, Mul(halfOpening, D(8, -1))),
                Add(cx, Mul(halfOpening, D(8, -1))),
                Mul(arteryRadius, D(8, -2)))
      openingWidth == Div(Mul(veinRadius, I(2)), FSin(angleRad))
  IN Opening(Div(openingWidth, I(2)))

\* modifyArteryWallForAnastomosis(upperWall, cx, veinRadius, angleRad,
\* arteryRadius)
modifyArteryWallForAnastomosis(upperWall, cx, veinRadius, angleRad, arteryRadius) ==
  LET Lowered(heelX, toeX, drop) ==
        [k \in 1..Len(upperWall) |->
           IF Gt(upperWall[k].x, heelX) /\ Lt(upperWall[k].x, toeX)
             THEN Pt(upperWall[k].x, Add(upperWall[k].y, drop))
             ELSE upperWall[k]] \o <<>>
      Opening(halfOpening) ==
        Lowered(Sub(cx, Mul(halfOpening, D(8, -1))),
                Add(cx, Mul(halfOpening, D(8, -1))),
                Mul(arteryRadius, D(8, -1)))
      openingWidth == Div(Mul(veinRadius, I(2)), FSin(angleRad))
  IN Opening(Div(openingWidth, I(2)))

\* a plausible slip: a one-based sample index in the wall parameter
ParamPositionOneBased(i, length) == Div(I(i + 1), I(length - 1))

\* paramPosition of sample i (from 0) of a contour: t = i / (length - 1)
ParamPosition(i, length) == Div(I(i), I(length - 1))

\* A WallPoint.  The field contour is not a field of the program's record:
\* it names the contour the point was sampled from.
WallPoint(contour, p, region, t) ==
  [contour |-> contour, point |-> p, regionType |-> region,
   paramPosition |-> t]

\* region of an upper-wall sample (generateWallPoints, lines 618-625)
UpperRegion(p, cx, arteryRadius) ==
  LET Region(dx) ==
        IF Gt(dx, arteryRadius) THEN "distal_artery"
        ELSE IF Lt(FAbs(dx), arteryRadius)
          THEN (IF Lt(dx, Zero) THEN "anastomosis_heel"
                ELSE "anastomosis_toe")
        ELSE "proximal_artery"
  IN Region(Sub(p.x, cx))

\* region of a lower-wall sample (generateWallPoints, lines 652-656)
LowerRegion(p, cx, arteryRadius) ==
  LET Region(dx) ==
        IF Gt(dx, Mul(arteryRadius, D(5, -1))) THEN "distal_artery"
        ELSE IF Lt(FAbs(dx), Mul(arteryRadius, D(15, -1)))
          THEN "anastomosis_floor"
        ELSE "proximal_artery"
  IN Region(Sub(p.x, cx))

\* generateWallPoints(arteryUpper, arteryLower, veinOuter, veinInner,
\* veinNormals, toeConnection, cx, cy, arteryRadius, angleRad)
generateWallPoints(arteryUpper, arteryLower, veinOuter, veinInner, toeConnection, cx, cy, arteryRadius) ==
  LET upper == [k \in 1..Len(arteryUpper) |->
                  WallPoint("arteryUpper", arteryUpper[k],
                            UpperRegion(arteryUpper[k], cx, arteryRadius),
                            ParamPosition(k - 1, Len(arteryUpper)))]
      Kept(wp, openingY) == ~Gt(wp.point.y, openingY)
      kept(wp) == Kept(wp, Add(Sub(cy, arteryRadius), I(5)))
      toe == [k \in 1..Len(toeConnection) |->
                WallPoint("toeConnection", toeConnection[k],
                          "anastomosis_toe",
                          ParamPosition(k - 1, Len(toeConnection)))]
      lower == [k \in 1..Len(arteryLower) |->
                  WallPoint("arteryLower", arteryLower[k],
                            LowerRegion(arteryLower[k], cx, arteryRadius),
                            ParamPosition(k - 1, Len(arteryLower)))]
      Outer(p, t) ==
        WallPoint("veinOuter", p,
                  IF Lt(t, D(2, -1)) THEN "anastomosis_outer"
                  ELSE "vein_outer", t)
      outer == [k \in 1..Len(veinOuter) |->
                  Outer(veinOuter[k], ParamPosition(k - 1, Len(veinOuter)))]
      Inner(p, t) ==
        WallPoint("veinInner", p,
                  IF Lt(t, D(2, -1)) THEN "anastomosis_floor"
                  ELSE "vein_inner", t)
      inner == [k \in 1..Len(veinInner) |->
                  Inner(veinInner[k], ParamPosition(k - 1, Len(veinInner)))]
  IN SelectSeq(upper, kept) \o toe \o lower
       \o SubSeq(outer, veinSkip + 1, Len(veinOuter))
       \o SubSeq(inner, veinSkip + 1, Len(veinInner))

\* generateGeometry(arteryDiameter, veinDiameter, anastomosisAngle): the
\* wall contours and the consolidated wall points
generateGeometry(arteryDiameter, veinDiameter, anastomosisAngle) ==
  LET Build(cx, cy, arteryRadius, veinRadius, angleRad) ==
        LET Geometry(modifiedArteryUpper, arteryLowerWall, veinOuterWall, veinInnerWall, toeConnection) ==
              [arteryUpperWall |-> modifiedArteryUpper,
               arteryLowerWall |-> arteryLowerWall,
               veinOuterWall |-> veinOuterWall,
               veinInnerWall |-> veinInnerWall,
               anastomosisPoint |-> Pt(cx, cy),
               wallPoints |->
                 generateWallPoints(modifiedArteryUpper, arteryLowerWall,
                                    veinOuterWall, veinInnerWall,
                                    toeConnection, cx, cy, arteryRadius),
               arteryDiameter |-> arteryDiameter,
               veinDiameter |-> veinDiameter,
               anastomosisAngle |-> anastomosisAngle]
            Connected(arteryUpperWall, arteryLowerWall, veinOuterWall, veinInnerWall) ==
              Geometry(modifyArteryWallForAnastomosis(arteryUpperWall, cx,
                         veinRadius, angleRad, arteryRadius),
                       arteryLowerWall, veinOuterWall, veinInnerWall,
                       generateSmoothConnection(veinOuterWall, cx,
                         Sub(cy, arteryRadius), numToePts))
            Walls(arteryCenterline, veinCenterline, veinNormals) ==
              Connected(
                [k \in 1..numArteryPts |->
                   Pt(arteryCenterline[k].x,
                      Sub(arteryCenterline[k].y, arteryRadius))] \o <<>>,
                [k \in 1..numArteryPts |->
                   Pt(arteryCenterline[k].x,
                      Add(arteryCenterline[k].y, arteryRadius))] \o <<>>,
                VeinWall(veinCenterline, veinNormals, veinRadius, 1),
                VeinWall(veinCenterline, veinNormals, veinRadius, -1))
        IN Walls(ArteryCenterline, VeinCenterline(angleRad),
                 VeinNormals(angleRad))
  IN Build(GeoCx, GeoCy, Mul(Div(arteryDiameter, I(2)), CANVAS.vesselScale),
           Mul(Div(veinDiameter, I(2)), CANVAS.vesselScale),
           AngleRad(anastomosisAngle))

(***************************************************************************)
(* Hemodynamics                                                            *)
(***************************************************************************)
\* the number of samples of the waveform calculateHemodynamics asks for
hemoWaveformSteps == 20

\* getRegionCorrectionFactor(region, angleRad, diameterRatio)
getRegionCorrectionFactor(region, angleRad, diameterRatio) ==
  CASE region = "proximal_artery" -> I(1)
    [] region = "distal_artery" -> D(85, -2)
    [] region = "anastomosis_outer" ->
         Add(I(1), Mul(Mul(I(2), FSin(angleRad)), FSqrt(diameterRatio)))
    [] region = "anastomosis_toe" ->
         Add(I(1), Mul(D(15, -1), FCos(Div(angleRad, I(2)))))
    [] region = "anastomosis_heel" ->
         Add(I(1), Mul(D(5, -1), FSin(angleRad)))
    [] region = "anastomosis_floor" ->
         Div(Mul(D(15, -2),
                 Sub(I(1), Mul(D(5, -1), FSin(Div(angleRad, I(2)))))),
             FPow(diameterRatio, D(3, -1)))
    [] region = "vein_outer" -> Add(D(11, -1), Mul(D(3, -1), FSin(angleRad)))
    [] region = "vein_inner" -> D(7, -1)
    [] OTHER -> I(1)

\* the guard of the denominators of calculateOSI
Epsilon == D(1, -10)

\* the angle test of isRecirculation made inclusive: 30 degrees itself
\* counted as recirculating
IsRecirculationFromThirty(region, angleRad) ==
  \/ region = "anastomosis_floor"
  \/ region = "vein_inner" /\ Ge(angleRad, Div(PI, I(6)))

\* isRecirculation of calculateOSI
IsRecirculation(region, angleRad) ==
  \/ region = "anastomosis_floor"
  \/ region = "vein_inner" /\ Gt(angleRad, Div(PI, I(6)))

\* the branch of calculateOSI for one-directional flow
OSIUnidirectional(wssTimeSeries) ==
  LET n == Len(wssTimeSeries)
      Index(mean, variance) ==
        FMin(Add(D(5, -2),
                 Mul(Div(FSqrt(variance), Add(mean, Epsilon)), D(1, -1))),
             D(15, -2))
      Variance(mean, sqDev) ==
        Index(mean, Div(Fold("sum", Zero, sqDev, 1, n), I(n)))
      Deviations(mean) ==
        Variance(mean,
                 [i \in 1..n |-> Sq(Sub(wssTimeSeries[i], mean))] \o <<>>)
  IN Deviations(Mean(wssTimeSeries))

\* directionFactor of sample i (from 0) of n
DirectionFactor(i, n, reversalFraction) ==
  IF Gt(FSin(Mul(Mul(Div(I(i), I(n)), I(2)), PI)), D(3, -1))
    THEN I(1) ELSE Neg(reversalFraction)

\* |sumSigned| / (sumAbs + 1e-10) of the recirculation branch
ReversalRatio(wssTimeSeries, angleRad) ==
  LET n == Len(wssTimeSeries)
      Ratio(absolute, signed) ==
        Div(FAbs(Fold("sum", Zero, signed, 1, n)),
            Add(Fold("sum", Zero, absolute, 1, n), Epsilon))
      Sums(reversalFraction) ==
        Ratio([i \in 1..n |-> FAbs(wssTimeSeries[i])] \o <<>>,
              [i \in 1..n |->
                 Mul(wssTimeSeries[i],
                     DirectionFactor(i - 1, n, reversalFraction))] \o <<>>)
  IN Sums(Add(D(3, -1), Mul(D(4, -1), FSin(angleRad))))

\* a plausible slip: the oscillation index returned as 1 - ratio, neither
\* halved nor clamped
calculateOSIUnscaled(wssTimeSeries, region, angleRad) ==
  IF ~IsRecirculation(region, angleRad)
    THEN OSIUnidirectional(wssTimeSeries)
    ELSE Sub(I(1), ReversalRatio(wssTimeSeries, angleRad))

\* calculateOSI(wssTimeSeries, region, angleRad)
calculateOSI(wssTimeSeries, region, angleRad) ==
  IF ~IsRecirculation(region, angleRad)
    THEN OSIUnidirectional(wssTimeSeries)
    ELSE FMin(FMax(Mul(D(5, -1),
                       Sub(I(1), ReversalRatio(wssTimeSeries, angleRad))),
                   Zero),
              D(5, -1))

\* a plausible slip: the guard of the denominator a decade too low
calculateRRTLowGuard(tawss, osi) ==
  LET Guarded(denominator) ==
        IF Lt(denominator, D(1, -3)) THEN I(100) ELSE Div(I(1), denominator)
  IN Guarded(Mul(Sub(I(1), Mul(I(2), osi)), tawss))

\* calculateRRT(tawss, osi)
calculateRRT(tawss, osi) ==
  LET Guarded(denominator) ==
        IF Lt(denominator, D(1, -2)) THEN I(100) ELSE Div(I(1), denominator)
  IN Guarded(Mul(Sub(I(1), Mul(I(2), osi)), tawss))

\* wp.regionType.startsWith('vein')
IsVein(region) == region \in {"vein_outer", "vein_inner"}

\* The locals of calculateHemodynamics before its loop over the wall points
\* (steps 1 to 5).  The velocity field (step 7) is not part of the model.
HemoLocals(p) ==
  LET BaseWSS(shearRate) ==
        Mul(carreauViscosity(shearRate, p.hematocrit), shearRate)
      Locals(geometry, flowSplit) ==
        [wallPoints |-> geometry.wallPoints,
         bloodProps |-> calculateBloodProperties(p.bloodFlowRate,
                                                 p.arteryDiameter,
                                                 p.hematocrit),
         flowSplit |-> flowSplit,
         waveform |-> generatePulsatileWaveform(p.heartRate, p.systolicRatio,
                                                hemoWaveformSteps),
         angleRad |-> AngleRad(p.anastomosisAngle),
         diameterRatio |-> Div(p.veinDiameter, p.arteryDiameter),
         baseWSS_artery |->
           BaseWSS(wallShearRate(ToM3s(p.bloodFlowRate),
                                 Mul(Div(p.arteryDiameter, I(2)), D(1, -3)))),
         baseWSS_vein |->
           BaseWSS(wallShearRate(ToM3s(flowSplit.veinFlowRate),
                                 Mul(Div(p.veinDiameter, I(2)), D(1, -3)))),
         wallWSS |-> <<>>]
  IN Locals(generateGeometry(p.arteryDiameter, p.veinDiameter,
                             p.anastomosisAngle),
            calculateFlowSplit(p))

\* the callback of geometry.wallPoints.map: WSS, OSI and RRT at wall point wp
WallDatum(wp, l) ==
  LET n == Len(l.waveform)
      baseWSS == IF IsVein(wp.regionType) THEN l.baseWSS_vein
                 ELSE l.baseWSS_artery
      correction == getRegionCorrectionFactor(wp.regionType, l.angleRad,
                                              l.diameterRatio)
      spatialVariation ==
        Add(I(1), Mul(D(1, -1), FSin(Mul(Mul(wp.paramPosition, PI), I(4)))))
      Datum(tawss, osi) ==
        [point |-> wp,
         data |-> [tawss |-> tawss, osi |-> osi,
                   rrt |-> calculateRRT(tawss, osi)]]
      Indices(wssTimeSeries, absolute) ==
        Datum(Div(Fold("sum", Zero, absolute, 1, n), I(n)),
              calculateOSI(wssTimeSeries, wp.regionType, l.angleRad))
      Absolute(wssTimeSeries) ==
        Indices(wssTimeSeries,
                [i \in 1..n |-> FAbs(wssTimeSeries[i])] \o <<>>)
      Series(scale) ==
        Absolute([i \in 1..n |-> Mul(scale, l.waveform[i])] \o <<>>)
  IN Series(Mul(Mul(baseWSS, correction), spatialVariation))

\* the metrics of calculateHemodynamics (step 8)
HemoMetrics(p, l) ==
  LET n == Len(l.wallWSS)
      curvatureRadius == Mul(p.veinDiameter, I(3))
      Metrics(tawssValues, osiValues, rrtValues, maxTAWSS, minTAWSS) ==
        [meanTAWSS |-> Mean(tawssValues),
         maxTAWSS |-> maxTAWSS,
         minTAWSS |-> minTAWSS,
         meanOSI |-> Mean(osiValues),
         maxOSI |-> MaxOf(osiValues),
         meanRRT |-> Mean(rrtValues),
         maxRRT |-> FMin(MaxOf(rrtValues), I(100)),
         reynoldsNumber |-> l.bloodProps.reynoldsNumber,
         deanNumber |->
           Mul(l.bloodProps.reynoldsNumber,
               FSqrt(Div(p.veinDiameter, Mul(I(2), curvatureRadius)))),
         wssGradient |->
           Div(Sub(maxTAWSS, minTAWSS), Div(p.arteryDiameter, I(1000))),
         effectiveViscosity |-> l.bloodProps.viscosity,
         tawss |-> Mean(tawssValues),
         osi |-> Mean(osiValues),
         rrt |-> Mean(rrtValues),
         totalFlowRate |-> IF p.baseFlowRate # Zero THEN p.baseFlowRate
                           ELSE p.bloodFlowRate]
      Values(tawssValues, osiValues, rrtValues) ==
        Metrics(tawssValues, osiValues, rrtValues, MaxOf(tawssValues),
                MinOf(tawssValues))
  IN Values([k \in 1..n |-> l.wallWSS[k].data.tawss] \o <<>>,
            [k \in 1..n |-> l.wallWSS[k].data.osi] \o <<>>,
            [k \in 1..n |-> l.wallWSS[k].data.rrt] \o <<>>)

(***************************************************************************)
(* Maturation prediction                                                   *)
(***************************************************************************)
\* a plausible slip: the top tier above the maximum score of the criterion
scoreVeinDiameterOverMax(diameter) ==
  IF Ge(diameter, D(25, -1)) THEN I(25)
  ELSE IF Ge(diameter, I(2)) THEN I(15)
  ELSE IF Ge(diameter, D(15, -1)) THEN I(10)
  ELSE Zero

\* scoreVeinDiameter(diameter): at most 20 points
scoreVeinDiameter(diameter) ==
  IF Ge(diameter, D(25, -1)) THEN I(20)
  ELSE IF Ge(diameter, I(2)) THEN I(15)
  ELSE IF Ge(diameter, D(15, -1)) THEN I(10)
  ELSE Zero

\* scoreArteryDiameter(diameter): at most 15 points
scoreArteryDiameter(diameter) ==
  IF Ge(diameter, I(2)) THEN I(15)
  ELSE IF Ge(diameter, D(15, -1)) THEN I(10)
  ELSE I(5)

\* scoreFlowRate(flowRate): at most 20 points
scoreFlowRate(flowRate) ==
  IF Ge(flowRate, I(500)) THEN I(20)
  ELSE IF Ge(flowRate, I(400)) THEN I(15)
  ELSE IF Ge(flowRate, I(300)) THEN I(10)
  ELSE I(5)

\* scoreTAWSS(tawss): at most 15 points
scoreTAWSS(tawss) ==
  IF Gt(tawss, I(1)) /\ Lt(tawss, I(7)) THEN I(15)
  ELSE IF Ge(tawss, D(5, -1)) /\ Le(tawss, I(10)) THEN I(10)
  ELSE I(5)

\* scoreOSI(osi): at most 10 points
scoreOSI(osi) ==
  IF Lt(osi, D(15, -2)) THEN I(10)
  ELSE IF Lt(osi, D(25, -2)) THEN I(5)
  ELSE Zero

\* scoreAnastomosisAngle(angle): at most 10 points
scoreAnastomosisAngle(angle) ==
  IF Ge(angle, I(30)) /\ Le(angle, I(60)) THEN I(10)
  ELSE IF Ge(angle, I(20)) /\ Le(angle, I(70)) THEN I(7)
  ELSE I(3)

\* scoreHematocrit(hct): at most 10 points
scoreHematocrit(hct) ==
  IF Ge(hct, D(35, -2)) /\ Le(hct, D(45, -2)) THEN I(10)
  ELSE IF Ge(hct, D(30, -2)) /\ Le(hct, D(50, -2)) THEN I(7)
  ELSE I(3)

\* a plausible slip: the sign of the exponent lost
logisticFunctionDecreasing(score) ==
  Div(I(1), Add(I(1), FExp(Mul(D(1, -1), Sub(score, I(50))))))

\* a plausible slip: the score taken as a fraction of 100 before the
\* logistic is applied
logisticFunctionOfFraction(score) ==
  Div(I(1), Add(I(1), FExp(Mul(Neg(D(1, -1)),
                               Sub(Div(score, I(100)), I(50))))))

\* logisticFunction(score) = 1 / (1 + Math.exp(-k * (score - x0)))
logisticFunction(score) ==
  Div(I(1), Add(I(1), FExp(Mul(Neg(D(1, -1)), Sub(score, I(50))))))

\* the entries of identifyRiskFactors, in the order of their tests
RiskLabels ==
  [veinSmall |-> "vein diameter small (< 2.0mm)",
   arterySmall |-> "artery diameter small (< 1.5mm)",
   flowLow |-> "insufficient blood flow (< 400 mL/min)",
   wssLow |-> "low wall shear stress (thrombosis risk)",
   wssHigh |-> "high wall shear stress (intimal injury risk)",
   osiHigh |-> "high OSI (turbulent tendency)",
   rrtHigh |-> "high RRT (thrombus formation risk)",
   angle |-> "anastomosis angle not optimal",
   anemia |-> "anemic tendency",
   polycythemia |-> "polycythemic tendency"]

\* a plausible slip: the tests chained with else, so that only the first
\* condition met is reported
identifyRiskFactorsFirstOnly(p, metrics) ==
  IF Lt(p.veinDiameter, I(2)) THEN <<RiskLabels.veinSmall>>
  ELSE IF Lt(p.arteryDiameter, D(15, -1)) THEN <<RiskLabels.arterySmall>>
  ELSE IF Lt(metrics.totalFlowRate, I(400)) THEN <<RiskLabels.flowLow>>
  ELSE IF Lt(metrics.tawss, D(5, -1)) THEN <<RiskLabels.wssLow>>
  ELSE IF Gt(metrics.tawss, I(7)) THEN <<RiskLabels.wssHigh>>
  ELSE IF Gt(metrics.osi, D(25, -2)) THEN <<RiskLabels.osiHigh>>
  ELSE IF Gt(metrics.rrt, I(10)) THEN <<RiskLabels.rrtHigh>>
  ELSE IF Lt(p.anastomosisAngle, I(30)) \/ Gt(p.anastomosisAngle, I(70))
    THEN <<RiskLabels.angle>>
  ELSE IF Lt(p.hematocrit, D(30, -2)) THEN <<RiskLabels.anemia>>
  ELSE IF Gt(p.hematocrit, D(50, -2)) THEN <<RiskLabels.polycythemia>>
  ELSE <<>>

\* the risk factors of the computed metrics only, the tests of the
\* parameters left out
identifyRiskFactorsOfMetricsOnly(p, metrics) ==
  (IF Lt(metrics.totalFlowRate, I(400))
     THEN <<RiskLabels.flowLow>> ELSE <<>>)
    \o (IF Lt(metrics.tawss, D(5, -1)) THEN <<RiskLabels.wssLow>> ELSE <<>>)
    \o (IF Gt(metrics.tawss, I(7)) THEN <<RiskLabels.wssHigh>> ELSE <<>>)
    \o (IF Gt(metrics.osi, D(25, -2)) THEN <<RiskLabels.osiHigh>> ELSE <<>>)
    \o (IF Gt(metrics.rrt, I(10)) THEN <<RiskLabels.rrtHigh>> ELSE <<>>)

\* identifyRiskFactors(params, metrics)
identifyRiskFactors(p, metrics) ==
  (IF Lt(p.veinDiameter, I(2)) THEN <<RiskLabels.veinSmall>> ELSE <<>>)
    \o (IF Lt(p.arteryDiameter, D(15, -1))
          THEN <<RiskLabels.arterySmall>> ELSE <<>>)
    \o (IF Lt(metrics.totalFlowRate, I(400))
          THEN <<RiskLabels.flowLow>> ELSE <<>>)
    \o (IF Lt(metrics.tawss, D(5, -1)) THEN <<RiskLabels.wssLow>> ELSE <<>>)
    \o (IF Gt(metrics.tawss, I(7)) THEN <<RiskLabels.wssHigh>> ELSE <<>>)
    \o (IF Gt(metrics.osi, D(25, -2)) THEN <<RiskLabels.osiHigh>> ELSE <<>>)
    \o (IF Gt(metrics.rrt, I(10)) THEN <<RiskLabels.rrtHigh>> ELSE <<>>)
    \o (IF Lt(p.anastomosisAngle, I(30)) \/ Gt(p.anastomosisAngle, I(70))
          THEN <<RiskLabels.angle>> ELSE <<>>)
    \o (IF Lt(p.hematocrit, D(30, -2)) THEN <<RiskLabels.anemia>> ELSE <<>>)
    \o (IF Gt(p.hematocrit, D(50, -2))
          THEN <<RiskLabels.polycythemia>> ELSE <<>>)

\* a plausible slip: five points taken off the score for every risk factor
predictMaturationPenalised(p, metrics) ==
  LET Result(factors, score, riskFactors) ==
        [probability |-> logisticFunction(score), score |-> score,
         factors |-> factors, riskFactors |-> riskFactors]
      Scored(f, riskFactors) ==
        Result(f,
               Sub(Add(Add(Add(Add(Add(Add(Add(Zero, f.veinDiameter),
                                           f.arteryDiameter),
                                       f.flowRate),
                                   f.tawss),
                               f.osi),
                           f.anastomosisAngle),
                       f.hematocrit),
                   I(5 * Len(riskFactors))),
               riskFactors)
  IN Scored([veinDiameter |-> scoreVeinDiameter(p.veinDiameter),
             arteryDiameter |-> scoreArteryDiameter(p.arteryDiameter),
             flowRate |-> scoreFlowRate(metrics.totalFlowRate),
             tawss |-> scoreTAWSS(metrics.tawss),
             osi |-> scoreOSI(metrics.osi),
             anastomosisAngle |-> scoreAnastomosisAngle(p.anastomosisAngle),
             hematocrit |-> scoreHematocrit(p.hematocrit)],
            identifyRiskFactors(p, metrics))

\* predictMaturation(params, metrics); the score is the reduce of
\* Object.values(factors) from 0, in the order of the object literal
predictMaturation(p, metrics) ==
  LET Result(factors, score) ==
        [probability |-> logisticFunction(score), score |-> score,
         factors |-> factors,
         riskFactors |-> identifyRiskFactors(p, metrics)]
      Scored(f) ==
        Result(f,
               Add(Add(Add(Add(Add(Add(Add(Zero, f.veinDiameter),
                                       f.arteryDiameter),
                                   f.flowRate),
                               f.tawss),
                           f.osi),
                       f.anastomosisAngle),
                   f.hematocrit))
  IN Scored([veinDiameter |-> scoreVeinDiameter(p.veinDiameter),
             arteryDiameter |-> scoreArteryDiameter(p.arteryDiameter),
             flowRate |-> scoreFlowRate(metrics.totalFlowRate),
             tawss |-> scoreTAWSS(metrics.tawss),
             osi |-> scoreOSI(metrics.osi),
             anastomosisAngle |-> scoreAnastomosisAngle(p.anastomosisAngle),
             hematocrit |-> scoreHematocrit(p.hematocrit)])

\* the projection without its ceiling of 0.95
predictTimelineUncapped(initialPrediction) ==
  LET baseProb == initialPrediction.probability
      Entry(week, progress) ==
        [week |-> I(week),
         probability |->
           Add(baseProb, Mul(Mul(Sub(I(1), baseProb), progress), D(5, -1))),
         flowRate |-> Mul(I(500), Add(I(1), Mul(progress, D(4, -1))))]
  IN [k \in 1..13 |->
        Entry(k - 1, Sub(I(1), FExp(Mul(Neg(D(3, -1)), I(k - 1)))))]

\* predictTimeline(initialPrediction): the entries of week 0 to week 12
predictTimeline(initialPrediction) ==
  LET baseProb == initialPrediction.probability
      Entry(week, progress) ==
        [week |-> I(week),
         probability |->
           FMin(Add(baseProb, Mul(Mul(Sub(I(1), baseProb), progress), D(5, -1))),
                D(95, -2)),
         flowRate |-> Mul(I(500), Add(I(1), Mul(progress, D(4, -1))))]
  IN [k \in 1..13 |->
        Entry(k - 1, Sub(I(1), FExp(Mul(Neg(D(3, -1)), I(k - 1)))))]

(***************************************************************************)
(* State                                                                   *)
(***************************************************************************)
VARIABLES
  pc,      \* position of the caller: "ready" before the call, "done" after
           \* it returned ("failed" would follow a throw: no function throws)
  params,  \* the SimulationParams handed to the pipeline
  call,    \* the function under call and its scalar arguments
  local,   \* the locals of a running calculateHemodynamics
  ret      \* the value the call returned

vars == <<pc, params, call, local, ret>>

\* no value: a variable not in use, a local not yet assigned.  The empty
\* sequence, which TLC can compare with the records and sequences the
\* variables hold otherwise.
None == <<>>

\* DEFAULT_PARAMS
DEFAULT_PARAMS ==
  [arteryDiameter |-> I(4), veinDiameter |-> I(4), anastomosisAngle |-> I(45),
   baseFlowRate |-> I(600), bloodFlowRate |-> I(600),
   hematocrit |-> D(40, -2), heartRate |-> I(75), bloodPressure |-> I(90),
   systolicRatio |-> D(35, -2)]

(***************************************************************************)
(* generatePulsatileWaveform on its own                                    *)
(***************************************************************************)
MaxSteps == 20

HeartRates == {I(50), I(75), I(120)}
SystolicRatios == {D(10, -2), D(20, -2), D(35, -2), D(50, -2), D(60, -2)}

InitWaveform ==
  /\ pc = "ready"
  /\ params = DEFAULT_PARAMS
  /\ call \in [fn : {"generatePulsatileWaveform"}, heartRate : HeartRates,
               systolicRatio : SystolicRatios, numSteps : 1..MaxSteps]
  /\ local = None
  /\ ret = None

GenerateWaveform ==
  /\ pc = "ready"
  /\ call.fn = "generatePulsatileWaveform"
  /\ ret' = generatePulsatileWaveform(call.heartRate, call.systolicRatio,
                                      call.numSteps)
  /\ pc' = "done"
  /\ UNCHANGED <<params, call, local>>

NextWaveform == GenerateWaveform

SpecWaveform == InitWaveform /\ [][NextWaveform]_vars

WaveformReturned == pc = "done" /\ call.fn = "generatePulsatileWaveform"

\* C1: every element of the returned (floored, then renormalised) waveform
\* is at least 0.15, for heartRate in [50,120] and systolicRatio in [0.1,0.6]
C1_ReturnedAtLeastFloor ==
  WaveformReturned => \A i \in 1..Len(ret) : Ge(ret[i], MinFlow)

\* relative tolerance of sums of six-digit numbers
SumTol == D(1, -4)

\* C2: the returned waveform has exactly numSteps elements and its mean is
\* 1.0 (up to the rounding of the arithmetic)
C2_MeanIsOne ==
  WaveformReturned =>
    /\ Len(ret) = call.numSteps
    /\ Le(FAbs(Sub(Mean(ret), I(1))), SumTol)

\* C2 witness: a returned waveform of several samples in which the floor
\* was active, so that the normalisation did change the samples
C2_Witness ==
  /\ WaveformReturned
  /\ call.numSteps = MaxSteps
  /\ \E i \in 1..Len(ret) : Lt(ret[i], MinFlow)

(***************************************************************************)
(* calculateFlowSplit on its own                                           *)
(***************************************************************************)
MaxFlowStep == 10

ArteryDiameters == {D(15, -1), D(25, -1), I(4), I(5)}
VeinDiameters == {I(1), D(25, -1), I(4), I(6)}
Angles == {I(15), I(30), I(45), I(60), D(899, -1), I(90)}
FlowRates == {I(100 * k) : k \in 0..MaxFlowStep}

InitFlowSplit ==
  /\ pc = "ready"
  /\ params \in {[DEFAULT_PARAMS EXCEPT !.arteryDiameter = a,
                    !.veinDiameter = v, !.anastomosisAngle = g,
                    !.bloodFlowRate = q] :
                   a \in ArteryDiameters, v \in VeinDiameters,
                   g \in Angles, q \in FlowRates}
  /\ call = [fn |-> "calculateFlowSplit"]
  /\ local = None
  /\ ret = None

CalculateFlowSplit ==
  /\ pc = "ready"
  /\ call.fn = "calculateFlowSplit"
  /\ ret' = calculateFlowSplit(params)
  /\ pc' = "done"
  /\ UNCHANGED <<params, call, local>>

NextFlowSplit == CalculateFlowSplit

SpecFlowSplit == InitFlowSplit /\ [][NextFlowSplit]_vars

FlowSplitReturned == pc = "done" /\ call.fn = "calculateFlowSplit"

\* C3: the flow split is a partition of the inflow: veinFraction in [0,1],
\* both branch flows non-negative, and their sum is bloodFlowRate (up to
\* the rounding of the arithmetic)
C3_FlowSplitPartition ==
  FlowSplitReturned =>
    /\ Ge(ret.veinFraction, Zero) /\ Le(ret.veinFraction, I(1))
    /\ Ge(ret.veinFlowRate, Zero) /\ Ge(ret.distalFlowRate, Zero)
    /\ Le(FAbs(Sub(Add(ret.veinFlowRate, ret.distalFlowRate),
                   params.bloodFlowRate)),
          Mul(params.bloodFlowRate, SumTol))

\* C3 witness: a split of a positive inflow at the steepest angle in which
\* both branches carry flow
C3_Witness ==
  /\ FlowSplitReturned
  /\ params.anastomosisAngle = I(90)
  /\ Gt(ret.veinFlowRate, Zero) /\ Gt(ret.distalFlowRate, Zero)

(***************************************************************************)
(* calculateBloodProperties: called as calculateHemodynamics calls it      *)
(* (arguments taken from params, hematocrit a ratio), and called directly  *)
(* with a hematocrit in the units of the table (percent)                   *)
(***************************************************************************)
HematocritRatios ==
  {D(25, -2), D(30, -2), D(40, -2), D(425, -3), D(45, -2), D(55, -2)}
HematocritPercents ==
  {I(5), I(10), I(19), I(20), D(225, -1), I(40), D(425, -1), I(55), I(56),
   I(80)}
BloodFlowRates == {Zero, I(100), I(600), I(1000)}

BloodCall(p, caller, hct) ==
  [fn |-> "calculateBloodProperties", caller |-> caller,
   flowRate_mLmin |-> p.bloodFlowRate, diameter_mm |-> p.arteryDiameter,
   hct |-> hct]

InitBlood ==
  /\ pc = "ready"
  /\ \E a \in ArteryDiameters, q \in BloodFlowRates :
       \/ \E h \in HematocritRatios :
            /\ params = [DEFAULT_PARAMS EXCEPT !.arteryDiameter = a,
                           !.bloodFlowRate = q, !.hematocrit = h]
            /\ call = BloodCall(params, "calculateHemodynamics",
                                params.hematocrit)
       \/ \E h \in HematocritPercents :
            /\ params = [DEFAULT_PARAMS EXCEPT !.arteryDiameter = a,
                           !.bloodFlowRate = q]
            /\ call = BloodCall(params, "direct", h)
  /\ local = None
  /\ ret = None

CalculateBloodProperties ==
  /\ pc = "ready"
  /\ call.fn = "calculateBloodProperties"
  /\ ret' = calculateBloodProperties(call.flowRate_mLmin, call.diameter_mm,
                                     call.hct)
  /\ pc' = "done"
  /\ UNCHANGED <<params, call, local>>

NextBlood == CalculateBloodProperties

SpecBlood == InitBlood /\ [][NextBlood]_vars

BloodReturned == pc = "done" /\ call.fn = "calculateBloodProperties"

\* the table's first and last hematocrit
HctFirst == HCT_VISCOSITY_TABLE[1].hct
HctRows == Len(HCT_VISCOSITY_TABLE)
HctLast == HCT_VISCOSITY_TABLE[HctRows].hct

\* C4: the hematocrit ratio of the parameters reaches the viscosity table
\* in the table's units: the Carreau parameters the pipeline's call uses are
\* those interpolated at that hematocrit in percent (0.40 -> the 40% row)
C4_HematocritUnits ==
  (BloodReturned /\ call.caller = "calculateHemodynamics") =>
    interpolateHctParams(call.hct)
      = interpolateHctParams(Mul(params.hematocrit, I(100)))

\* C5: outside the table's range [20,55] the Carreau parameters are those
\* of the nearest end row, and calculateBloodProperties returns what it
\* returns at that end: no extrapolation
C5_HematocritClamp ==
  BloodReturned =>
    /\ Lt(call.hct, HctFirst) =>
         /\ interpolateHctParams(call.hct)
              = [mu_inf |-> HCT_VISCOSITY_TABLE[1].mu_inf,
                 mu_0 |-> HCT_VISCOSITY_TABLE[1].mu_0]
         /\ ret = calculateBloodProperties(call.flowRate_mLmin,
                                           call.diameter_mm, HctFirst)
    /\ Gt(call.hct, HctLast) =>
         /\ interpolateHctParams(call.hct)
              = [mu_inf |-> HCT_VISCOSITY_TABLE[HctRows].mu_inf,
                 mu_0 |-> HCT_VISCOSITY_TABLE[HctRows].mu_0]
         /\ ret = calculateBloodProperties(call.flowRate_mLmin,
                                           call.diameter_mm, HctLast)

\* C5 witness: a call returned for a hematocrit above the table's last key
\* with a positive flow, so that the viscosity depends on the table
C5_Witness ==
  /\ BloodReturned
  /\ call.hct = I(80)
  /\ Gt(call.flowRate_mLmin, Zero)
  /\ ret.viscosity = calculateBloodProperties(call.flowRate_mLmin,
                                              call.diameter_mm,
                                              HctLast).viscosity

(***************************************************************************)
(* generateGeometry on its own                                             *)
(***************************************************************************)
InitGeometry ==
  /\ pc = "ready"
  /\ params \in {[DEFAULT_PARAMS EXCEPT !.arteryDiameter = a,
                    !.veinDiameter = v, !.anastomosisAngle = g] :
                   a \in ArteryDiameters, v \in VeinDiameters, g \in Angles}
  /\ call = [fn |-> "generateGeometry"]
  /\ local = None
  /\ ret = None

GenerateGeometry ==
  /\ pc = "ready"
  /\ call.fn = "generateGeometry"
  /\ ret' = generateGeometry(params.arteryDiameter, params.veinDiameter,
                             params.anastomosisAngle)
  /\ pc' = "done"
  /\ UNCHANGED <<params, call, local>>

NextGeometry == GenerateGeometry

SpecGeometry == InitGeometry /\ [][NextGeometry]_vars

GeometryReturned == pc = "done" /\ call.fn = "generateGeometry"

\* C9: every WallPoint of a returned geometry has paramPosition in [0,1]
\* and one of the eight region tags, and the paramPosition of the points
\* taken from one source contour strictly increases in sequence order
C9_WallPointsWellFormed ==
  GeometryReturned =>
    LET wps == ret.wallPoints
    IN /\ \A k \in 1..Len(wps) :
            /\ Ge(wps[k].paramPosition, Zero)
            /\ Le(wps[k].paramPosition, I(1))
            /\ wps[k].regionType \in RegionTypes
       /\ \A j, k \in 1..Len(wps) :
            (j < k /\ wps[j].contour = wps[k].contour) =>
              Lt(wps[j].paramPosition, wps[k].paramPosition)

\* C9 witness: a returned geometry with points of all five contours, the
\* upper wall thinned by the opening, and each vein wall ending at 1
C9_Witness ==
  /\ GeometryReturned
  /\ {ret.wallPoints[k].contour : k \in 1..Len(ret.wallPoints)}
       = {"arteryUpper", "toeConnection", "arteryLower", "veinOuter",
          "veinInner"}
  /\ Len(ret.wallPoints) < 3 * numArteryPts + 2 * numVeinPts
  /\ ret.wallPoints[Len(ret.wallPoints)].paramPosition = I(1)

(***************************************************************************)
(* The entry points called with diameters outside the documented range     *)
(***************************************************************************)
BoundaryDiameters == {I(-4), I(-1), D(4, -1), D(25, -1), I(4)}
BoundaryAngles == {I(30), I(45), I(90)}

InitBoundary ==
  /\ pc = "ready"
  /\ params \in {[DEFAULT_PARAMS EXCEPT !.arteryDiameter = a,
                    !.veinDiameter = v, !.anastomosisAngle = g] :
                   a \in BoundaryDiameters, v \in BoundaryDiameters,
                   g \in BoundaryAngles}
  /\ call \in {[fn |-> "generateGeometry"], [fn |-> "calculateFlowSplit"]}
  /\ local = None
  /\ ret = None

NextBoundary == GenerateGeometry \/ CalculateFlowSplit

SpecBoundary == InitBoundary /\ [][NextBoundary]_vars

\* C6: a call of generateGeometry or calculateFlowSplit with a negative
\* artery or vein diameter is rejected with an invalid-parameter failure:
\* it ends failed and never returns a geometry or a flow split
C6_InvalidDiameterRejected ==
  (Lt(params.arteryDiameter, Zero) \/ Lt(params.veinDiameter, Zero)) =>
    pc \in {"ready", "failed"}

(***************************************************************************)
(* calculateHemodynamics, one wall point of its loop at a time             *)
(***************************************************************************)
HemoArteryDiameters == {I(4)}
HemoVeinDiameters == {I(4), I(6)}
HemoAngles == {I(15), I(30), I(45), I(90)}
HemoFlowRates == {Zero, I(10), I(600)}
HemoSystolicRatios == {D(10, -2), D(35, -2), D(60, -2)}

Init ==
  /\ pc = "ready"
  /\ params \in {[DEFAULT_PARAMS EXCEPT !.arteryDiameter = a,
                    !.veinDiameter = v, !.anastomosisAngle = g,
                    !.bloodFlowRate = q, !.baseFlowRate = q,
                    !.systolicRatio = r] :
                   a \in HemoArteryDiameters, v \in HemoVeinDiameters,
                   g \in HemoAngles, q \in HemoFlowRates,
                   r \in HemoSystolicRatios}
  /\ call = [fn |-> "calculateHemodynamics"]
  /\ local = None
  /\ ret = None

\* steps 1 to 5: geometry, blood properties, flow split, waveform, base WSS
HemoBegin ==
  /\ pc = "ready"
  /\ call.fn = "calculateHemodynamics"
  /\ local' = HemoLocals(params)
  /\ pc' = "wall"
  /\ UNCHANGED <<params, call, ret>>

\* step 6: one call of the callback of geometry.wallPoints.map
HemoWallPoint ==
  /\ pc = "wall"
  /\ Len(local.wallWSS) < Len(local.wallPoints)
  /\ local' = [local EXCEPT !.wallWSS =
                 Append(@, WallDatum(local.wallPoints[Len(@) + 1], local))]
  /\ UNCHANGED <<pc, params, call, ret>>

\* step 8 and the return
HemoFinish ==
  /\ pc = "wall"
  /\ Len(local.wallWSS) = Len(local.wallPoints)
  /\ ret' = [wallWSS |-> local.wallWSS,
             metrics |-> HemoMetrics(params, local),
             flowSplit |-> local.flowSplit]
  /\ local' = None
  /\ pc' = "done"
  /\ UNCHANGED <<params, call>>

Next == HemoBegin \/ HemoWallPoint \/ HemoFinish

Spec == Init /\ [][Next]_vars

HemoReturned == pc = "done" /\ call.fn = "calculateHemodynamics"

\* the datum the loop computed last, as a set
LastDatum ==
  IF pc = "wall" /\ Len(local.wallWSS) > 0
    THEN {local.wallWSS[Len(local.wallWSS)]}
    ELSE {}

\* C7: every OSI calculateHemodynamics computes for a wall point lies in
\* [0, 0.5], in the one-directional and in the recirculation branch
C7_OSIInRange ==
  /\ \A w \in LastDatum :
       Ge(w.data.osi, Zero) /\ Le(w.data.osi, D(5, -1))
  /\ HemoReturned =>
       \A k \in 1..Len(ret.wallWSS) :
         /\ Ge(ret.wallWSS[k].data.osi, Zero)
         /\ Le(ret.wallWSS[k].data.osi, D(5, -1))

\* C7 witness: a returned result whose wall points took both branches of
\* calculateOSI under a positive flow
C7_Witness ==
  /\ HemoReturned
  /\ Gt(params.bloodFlowRate, Zero)
  /\ \E k \in 1..Len(ret.wallWSS) :
       /\ ret.wallWSS[k].point.regionType = "vein_inner"
       /\ Gt(ret.wallWSS[k].data.osi, D(15, -2))
  /\ \E k \in 1..Len(ret.wallWSS) :
       /\ ret.wallWSS[k].point.regionType = "proximal_artery"
       /\ Le(ret.wallWSS[k].data.osi, D(15, -2))

\* the denominator (1 - 2 OSI) TAWSS of the RRT
RRTDenominator(d) == Mul(Sub(I(1), Mul(I(2), d.osi)), d.tawss)

\* C8: for TAWSS > 0 and OSI in [0, 0.5] the RRT of a wall point is in
\* [0, 100]: 100 when (1 - 2 OSI) TAWSS < 0.01 and its reciprocal otherwise;
\* meanRRT and maxRRT of the returned metrics are at most 100
C8_RRTInRange ==
  /\ \A w \in LastDatum :
       (/\ Gt(w.data.tawss, Zero)
        /\ Ge(w.data.osi, Zero) /\ Le(w.data.osi, D(5, -1))) =>
         /\ Ge(w.data.rrt, Zero) /\ Le(w.data.rrt, I(100))
         /\ Lt(RRTDenominator(w.data), D(1, -2)) => w.data.rrt = I(100)
         /\ Ge(RRTDenominator(w.data), D(1, -2)) =>
              w.data.rrt = Div(I(1), RRTDenominator(w.data))
  /\ HemoReturned =>
       /\ Le(ret.metrics.meanRRT, I(100))
       /\ Le(ret.metrics.maxRRT, I(100))

\* C8 witness: a returned result under a positive flow with a wall point
\* whose RRT took the cap and a wall point whose RRT is the reciprocal
C8_Witness ==
  /\ HemoReturned
  /\ \E k \in 1..Len(ret.wallWSS) :
       /\ Gt(ret.wallWSS[k].data.tawss, Zero)
       /\ Lt(RRTDenominator(ret.wallWSS[k].data), D(1, -2))
       /\ ret.wallWSS[k].data.rrt = I(100)
  /\ \E k \in 1..Len(ret.wallWSS) : Lt(ret.wallWSS[k].data.rrt, I(100))

(***************************************************************************)
(* Specification: predictMaturation and logisticFunction on their own      *)
(***************************************************************************)
\* the largest score handed to logisticFunction on its own
MaxScore == 100

\* the inputs of predictMaturation: every tier of every score and both
\* sides of every risk threshold
PredictionInputs ==
  [veinDiameter |-> {I(1), D(15, -1), I(2), I(4)},
   arteryDiameter |-> {I(1), D(15, -1), I(4)},
   anastomosisAngle |-> {I(15), I(20), I(45), I(70), I(85)},
   hematocrit |-> {D(25, -2), D(30, -2), D(40, -2), D(55, -2)},
   totalFlowRate |-> {I(150), I(300), I(400), I(600)},
   tawss |-> {D(4, -1), D(5, -1), I(1), I(3), I(8), I(11)},
   osi |-> {D(10, -2), D(15, -2), D(25, -2), D(30, -2)},
   rrt |-> {I(5), I(20)}]

InitPrediction ==
  /\ pc = "ready"
  /\ \/ \E q \in PredictionInputs.totalFlowRate :
          /\ params \in {[DEFAULT_PARAMS EXCEPT !.veinDiameter = v,
                            !.arteryDiameter = a, !.anastomosisAngle = g,
                            !.hematocrit = h, !.baseFlowRate = q,
                            !.bloodFlowRate = q] :
                           v \in PredictionInputs.veinDiameter,
                           a \in PredictionInputs.arteryDiameter,
                           g \in PredictionInputs.anastomosisAngle,
                           h \in PredictionInputs.hematocrit}
          /\ call \in {[fn |-> "predictMaturation",
                        metrics |-> [totalFlowRate |-> q, tawss |-> t,
                                     osi |-> o, rrt |-> r]] :
                         t \in PredictionInputs.tawss,
                         o \in PredictionInputs.osi,
                         r \in PredictionInputs.rrt}
     \/ /\ params = DEFAULT_PARAMS
        /\ call \in {[fn |-> "logisticFunction", score |-> I(n)] :
                       n \in 0..MaxScore}
     \/ /\ params = DEFAULT_PARAMS
        /\ call \in {[fn |-> "predictTimeline",
                        initialPrediction |->
                          [score |-> I(n),
                           probability |-> logisticFunction(I(n))]] :
                         n \in 0..MaxScore}
  /\ local = None
  /\ ret = None

PredictMaturation ==
  /\ pc = "ready"
  /\ call.fn = "predictMaturation"
  /\ ret' = predictMaturation(params, call.metrics)
  /\ pc' = "done"
  /\ UNCHANGED <<params, call, local>>

LogisticFunction ==
  /\ pc = "ready"
  /\ call.fn = "logisticFunction"
  /\ ret' = logisticFunction(call.score)
  /\ pc' = "done"
  /\ UNCHANGED <<params, call, local>>

PredictTimeline ==
  /\ pc = "ready"
  /\ call.fn = "predictTimeline"
  /\ ret' = predictTimeline(call.initialPrediction)
  /\ pc' = "done"
  /\ UNCHANGED <<params, call, local>>

NextPrediction == PredictMaturation \/ LogisticFunction \/ PredictTimeline

SpecPrediction == InitPrediction /\ [][NextPrediction]_vars

PredictionReturned == pc = "done" /\ call.fn = "predictMaturation"

\* C11: the score predictMaturation returns is the sum of its seven
\* sub-scores, every sub-score lies between 0 and its maximum (20, 15, 20,
\* 15, 10, 10, 10), and the score lies in [0, 100]
C11_ScoreIsBoundedSum ==
  PredictionReturned =>
    /\ ret.score =
         Add(Add(Add(Add(Add(Add(ret.factors.veinDiameter,
                                 ret.factors.arteryDiameter),
                             ret.factors.flowRate),
                         ret.factors.tawss),
                     ret.factors.osi),
                 ret.factors.anastomosisAngle),
             ret.factors.hematocrit)
    /\ Ge(ret.factors.veinDiameter, Zero)
    /\ Le(ret.factors.veinDiameter, I(20))
    /\ Ge(ret.factors.arteryDiameter, Zero)
    /\ Le(ret.factors.arteryDiameter, I(15))
    /\ Ge(ret.factors.flowRate, Zero)
    /\ Le(ret.factors.flowRate, I(20))
    /\ Ge(ret.factors.tawss, Zero)
    /\ Le(ret.factors.tawss, I(15))
    /\ Ge(ret.factors.osi, Zero)
    /\ Le(ret.factors.osi, I(10))
    /\ Ge(ret.factors.anastomosisAngle, Zero)
    /\ Le(ret.factors.anastomosisAngle, I(10))
    /\ Ge(ret.factors.hematocrit, Zero)
    /\ Le(ret.factors.hematocrit, I(10))
    /\ Ge(ret.score, Zero)
    /\ Le(ret.score, I(100))

\* C11 witness: a returned prediction in which every sub-score is at its
\* maximum, so that the score is 100
C11_Witness ==
  /\ PredictionReturned
  /\ ret.factors.veinDiameter = I(20)
  /\ ret.factors.tawss = I(15)
  /\ ret.score = I(100)

\* C12: the probability is logistic(0.1 (score - 50)): strictly between 0
\* and 1, strictly increasing in the score, 0.5 exactly at score 50, and so
\* above 0.5 exactly when the score is above 50
C12_LogisticProbability ==
  /\ (pc = "done" /\ call.fn = "logisticFunction") =>
       /\ Gt(ret, Zero) /\ Lt(ret, I(1))
       /\ Lt(ret, logisticFunction(Add(call.score, I(1))))
       /\ call.score = I(50) => ret = D(5, -1)
       /\ Gt(ret, D(5, -1)) <=> Gt(call.score, I(50))
       /\ Lt(ret, D(5, -1)) <=> Lt(call.score, I(50))
  /\ PredictionReturned =>
       /\ ret.probability = logisticFunction(ret.score)
       /\ Gt(ret.probability, Zero) /\ Lt(ret.probability, I(1))
       /\ Gt(ret.probability, D(5, -1)) <=> Gt(ret.score, I(50))

\* C12 witness: logisticFunction returned one half for the score 50
C12_Witness ==
  /\ pc = "done"
  /\ call.fn = "logisticFunction"
  /\ call.score = I(50)
  /\ ret = D(5, -1)

\* C13: risk factors do not feed back into the score: an input that agrees
\* with the one of the call on veinDiameter, arteryDiameter,
\* anastomosisAngle, hematocrit, totalFlowRate, tawss and osi has the same
\* score, factors and probability, whatever its other fields (metrics.rrt,
\* which only drives a risk-factor entry, and params.heartRate) are
C13_RiskFactorsDoNotFeedBack ==
  PredictionReturned =>
    \A r \in PredictionInputs.rrt :
      LET other == predictMaturation([params EXCEPT !.heartRate = I(50)],
                                     [call.metrics EXCEPT !.rrt = r])
      IN /\ other.score = ret.score
         /\ other.factors = ret.factors
         /\ other.probability = ret.probability

\* C13 witness: a returned prediction whose risk-factor list has the
\* high-RRT entry and differs from the list of the input with the other RRT
C13_Witness ==
  /\ PredictionReturned
  /\ \E k \in 1..Len(ret.riskFactors) : ret.riskFactors[k] = RiskLabels.rrtHigh
  /\ \E r \in PredictionInputs.rrt :
       predictMaturation(params, [call.metrics EXCEPT !.rrt = r]).riskFactors
         # ret.riskFactors

\* C15: the risk-factor list has the small-vein entry whenever
\* veinDiameter < 2.0 and the insufficient-flow entry whenever the total
\* flow rate is below 400 mL/min, whatever the other conditions are; so it
\* has both in scenario B (arteryDiameter 1.5, veinDiameter 1.5, angle 85,
\* flow rate 150, hematocrit 0.55)
C15_RiskFactorsFlagged ==
  PredictionReturned =>
    /\ Lt(params.veinDiameter, I(2)) =>
         \E k \in 1..Len(ret.riskFactors) :
           ret.riskFactors[k] = RiskLabels.veinSmall
    /\ Lt(call.metrics.totalFlowRate, I(400)) =>
         \E k \in 1..Len(ret.riskFactors) :
           ret.riskFactors[k] = RiskLabels.flowLow

\* C15 witness: the prediction returned for scenario B, with both entries
C15_Witness ==
  /\ PredictionReturned
  /\ params.arteryDiameter = D(15, -1)
  /\ params.veinDiameter = D(15, -1)
  /\ params.anastomosisAngle = I(85)
  /\ params.hematocrit = D(55, -2)
  /\ params.baseFlowRate = I(150)
  /\ call.metrics.totalFlowRate = I(150)
  /\ \E k \in 1..Len(ret.riskFactors) :
       ret.riskFactors[k] = RiskLabels.veinSmall
  /\ \E k \in 1..Len(ret.riskFactors) :
       ret.riskFactors[k] = RiskLabels.flowLow

(***************************************************************************)
(* Specification: SimulatorPanel, its effect and the sliders               *)
(*                                                                         *)
(* params is the params state of the component.  call carries the rest of  *)
(* the component: state is the geometry, metrics and wallWSS state (with   *)
(* snapshot, the params the effect that set them had closed over, kept as  *)
(* history), geo the effect's const geo, effectDue whether [params]        *)
(* changed since the effect ran, and rendered what the last render used.   *)
(* A value that may be null (metrics, the prediction, the last render) is  *)
(* a sequence: <<>> for null, <<v>> for v.                                 *)
(* The effect's call of calculateHemodynamics is the three steps of Spec.  *)
(***************************************************************************)
\* the values the sliders of ParameterControls are moved to
PanelSliders ==
  [baseFlowRate |-> {I(150), I(600)}, veinDiameter |-> {D(15, -1), I(4)}]

InitPanel ==
  /\ pc = "render"
  /\ params = DEFAULT_PARAMS
  /\ call = [fn |-> "calculateHemodynamics", geo |-> <<>>,
             state |-> [geometry |-> <<>>, metrics |-> <<>>,
                        wallWSS |-> <<>>, snapshot |-> <<>>],
             displayMode |-> "wss", effectDue |-> TRUE, rendered |-> <<>>]
  /\ local = None
  /\ ret = None

\* one render of SimulatorPanel: the prediction, the timeline and the props
\* of the canvas and the panels, from the current state
Render ==
  /\ pc = "render"
  /\ call' = [call EXCEPT !.rendered =
                <<[params |-> params,
                   displayMode |-> call.displayMode,
                   metrics |-> call.state.metrics,
                   snapshot |-> call.state.snapshot,
                   prediction |->
                     IF call.state.metrics = <<>> THEN <<>>
                     ELSE <<predictMaturation(params,
                                              call.state.metrics[1])>>,
                   timeline |->
                     IF call.state.metrics = <<>> THEN <<>>
                     ELSE predictTimeline(
                            predictMaturation(params,
                                              call.state.metrics[1]))]>>]
  /\ pc' = IF call.effectDue THEN "effect" ELSE "idle"
  /\ UNCHANGED <<params, local, ret>>

\* the effect, up to its call of calculateHemodynamics
SimulationEffect ==
  /\ pc = "effect"
  /\ call' = [call EXCEPT !.geo =
                <<generateGeometry(params.arteryDiameter, params.veinDiameter,
                                   params.anastomosisAngle)>>]
  /\ pc' = "ready"
  /\ UNCHANGED <<params, local, ret>>

\* setGeometry(geo); setMetrics(result.metrics); setWallWSS(result.wallWSS)
SetState ==
  /\ pc = "done"
  /\ call' = [call EXCEPT !.state = [geometry |-> call.geo,
                                     metrics |-> <<ret.metrics>>,
                                     wallWSS |-> ret.wallWSS,
                                     snapshot |-> <<params>>],
                          !.geo = <<>>, !.effectDue = FALSE]
  /\ ret' = None
  /\ pc' = "render"
  /\ UNCHANGED <<params, local>>

\* updateParam on the object it was given: params changed in place, the
\* state keeping its identity, so that the effect is not due
UpdateParamInPlace ==
  /\ pc = "idle"
  /\ \E key \in DOMAIN PanelSliders :
       \E value \in PanelSliders[key] :
         params' = [params EXCEPT ![key] = value]
  /\ pc' = "render"
  /\ UNCHANGED <<call, local, ret>>

\* updateParam(key, value) of a slider: onChange({...params, [key]: value})
UpdateParam ==
  /\ pc = "idle"
  /\ \E key \in DOMAIN PanelSliders :
       \E value \in PanelSliders[key] :
         params' = [params EXCEPT ![key] = value]
  /\ call' = [call EXCEPT !.effectDue = TRUE]
  /\ pc' = "render"
  /\ UNCHANGED <<local, ret>>

\* onValueChange of the display tabs: setDisplayMode(v), a state the
\* effect does not depend on
SetDisplayMode ==
  /\ pc = "idle"
  /\ \E v \in {"wss", "osi", "velocity"} \ {call.displayMode} :
       call' = [call EXCEPT !.displayMode = v]
  /\ pc' = "render"
  /\ UNCHANGED <<params, local, ret>>

NextPanel ==
  \/ Render
  \/ SimulationEffect
  \/ HemoBegin
  \/ HemoWallPoint
  \/ HemoFinish
  \/ SetState
  \/ UpdateParam
  \/ SetDisplayMode

SpecPanel == InitPanel /\ [][NextPanel]_vars

\* the position of the component in its run: every step of NextPanel
\* changes pc or extends local.wallWSS
PanelPosition == <<pc, IF pc = "wall" THEN Len(local.wallWSS) ELSE 0>>

\* React runs a render that is due and the effect of a committed render:
\* the component's own steps (every step but the user's) are weakly fair.
\* One of them is enabled exactly when pc is not "idle", and every step
\* taken from such a pc is one of them, so WF_vars of their disjunction is
\* the formula below, which needs no evaluation of ENABLED.
SpecPanelFair ==
  SpecPanel /\ ([]<>(pc = "idle") \/ []<><<pc # "idle">>_PanelPosition)

\* C14: in scenario A (DEFAULT_PARAMS: diameters 4.0 and 4.0, angle 45,
\* flow 600, hematocrit 0.40, heart rate 75, systolic ratio 0.35) the
\* prediction from these parameters and the metrics calculateHemodynamics
\* returned for them has a maturation probability above 0.5
C14_ScenarioAMatures ==
  \A k \in 1..Len(call.rendered) :
    (/\ call.rendered[k].prediction # <<>>
     /\ call.rendered[k].params = DEFAULT_PARAMS
     /\ call.rendered[k].snapshot = <<DEFAULT_PARAMS>>) =>
      Gt(call.rendered[k].prediction[1].probability, D(5, -1))

\* C14 witness: a render of scenario A on the metrics of scenario A, with
\* the full score of the five parameter criteria
C14_Witness ==
  /\ Len(call.rendered) = 1
  /\ call.rendered[1].prediction # <<>>
  /\ call.rendered[1].params = DEFAULT_PARAMS
  /\ call.rendered[1].snapshot = <<DEFAULT_PARAMS>>
  /\ call.rendered[1].metrics[1].totalFlowRate = I(600)
  /\ Ge(call.rendered[1].prediction[1].score, I(75))

\* C18: every render that has metrics uses metrics computed from the
\* parameter snapshot that is the current params of that render
C18_RenderUsesOneSnapshot ==
  \A k \in 1..Len(call.rendered) :
    call.rendered[k].metrics # <<>> =>
      call.rendered[k].snapshot = <<call.rendered[k].params>>

\* C19: in every result of calculateHemodynamics the two branch flow rates
\* add up to the flow rate reported as metrics.totalFlowRate (within the
\* rounding of the sum, 0.1 mL/min)
C19_FlowRateConsistent ==
  (pc = "done" /\ call.fn = "calculateHemodynamics") =>
    Le(FAbs(Sub(Add(ret.flowSplit.veinFlowRate, ret.flowSplit.distalFlowRate),
                ret.metrics.totalFlowRate)),
       D(1, -1))

(***************************************************************************)
(* Geometry at the upper end of the angle range                            *)
(***************************************************************************)
\* C16: at an anastomosis angle of 90 degrees, and just below it at 89.9,
\* generateGeometry completes; the opening cut into the upper artery wall is
\* the vein diameter over the sine of the angle, a sine that is 1 or nearly
\* 1 there, so the points lowered between heel and toe stay within 0.8 of
\* half that width from the anastomosis centre, and every returned wall
\* point has coordinates of bounded magnitude
C16_RightAngleGeometryFinite ==
  LET veinRadius == Mul(Div(params.veinDiameter, I(2)), CANVAS.vesselScale)
      upperY == Sub(GeoCy, Mul(Div(params.arteryDiameter, I(2)), CANVAS.vesselScale))
      lowered == {k \in 1..Len(ret.arteryUpperWall) : Gt(ret.arteryUpperWall[k].y, upperY)}
  IN (GeometryReturned /\ params.anastomosisAngle \in {D(899, -1), I(90)}) =>
       /\ Ge(FSin(AngleRad(params.anastomosisAngle)), D(99, -2))
       /\ \A k \in lowered :
            Lt(FAbs(Sub(ret.arteryUpperWall[k].x, GeoCx)), Mul(D(81, -2), veinRadius))
       /\ \A k \in 1..Len(ret.wallPoints) :
            /\ Lt(FAbs(ret.wallPoints[k].point.x), Mul(I(2), CANVAS.width))
            /\ Lt(FAbs(ret.wallPoints[k].point.y), Mul(I(2), CANVAS.height))

\* a geometry returned for 89.9 degrees with a wide vein, whose opening
\* lowered some of the upper-wall points
C16_Witness ==
  /\ GeometryReturned
  /\ params.anastomosisAngle = D(899, -1)
  /\ params.veinDiameter = I(6)
  /\ \E k \in 1..Len(ret.arteryUpperWall) :
       Gt(ret.arteryUpperWall[k].y, Sub(GeoCy, Mul(Div(params.arteryDiameter, I(2)), CANVAS.vesselScale)))
  /\ Len(ret.wallPoints) > 0

(***************************************************************************)
(* Shear thinning                                                          *)
(***************************************************************************)
\* C17: for every flow rate >= 0 and every hematocrit, the viscosity
\* calculateBloodProperties returns lies between the mu_inf and the mu_0
\* interpolateHctParams gives for that hematocrit, and a larger flow rate
\* (a larger wall shear rate) through the same vessel never gives a larger
\* viscosity; carreauViscosity itself is bounded the same way and
\* non-increasing over shear rates from 0 to 10^4 1/s
C17_ViscosityBoundedShearThinning ==
  LET mu == interpolateHctParams(call.hct)
      rates == {Zero, D(5, -2), D(1, -1), I(1), I(100), D(1, 4)}
      visc == [g \in rates |-> carreauViscosity(g, call.hct)]
  IN BloodReturned =>
       /\ Le(mu.mu_inf, ret.viscosity)
       /\ Le(ret.viscosity, mu.mu_0)
       /\ \A q \in BloodFlowRates :
            Ge(q, call.flowRate_mLmin) =>
              Le(calculateBloodProperties(q, call.diameter_mm, call.hct).viscosity,
                 ret.viscosity)
       /\ \A g \in rates : Le(mu.mu_inf, visc[g]) /\ Le(visc[g], mu.mu_0)
       /\ \A g1 \in rates : \A g2 \in rates :
            Le(g1, g2) => Le(visc[g2], visc[g1])

\* blood properties returned for 600 mL/min at a hematocrit of 40 percent,
\* with a viscosity strictly between the two plateaus and strictly below
\* the viscosity at rest
C17_Witness ==
  /\ BloodReturned
  /\ call.flowRate_mLmin = I(600)
  /\ call.hct = I(40)
  /\ Lt(interpolateHctParams(call.hct).mu_inf, ret.viscosity)
  /\ Lt(ret.viscosity, interpolateHctParams(call.hct).mu_0)
  /\ Lt(ret.viscosity, carreauViscosity(Zero, call.hct))

(***************************************************************************)
(* Shear-rate floor                                                        *)
(***************************************************************************)
\* C20: the wall shear rate calculateBloodProperties returns, and the
\* artery shear rate calculateHemodynamics multiplies by the viscosity to
\* obtain the baseline WSS (wallShearRate of the same flow rate and
\* radius), are never below 0.1 1/s, zero flow included
C20_ShearRateFloor ==
  BloodReturned =>
    /\ Ge(ret.shearRate, D(1, -1))
    /\ Ge(wallShearRate(ToM3s(call.flowRate_mLmin),
                        Mul(Div(call.diameter_mm, I(2)), D(1, -3))),
          D(1, -1))

(***************************************************************************)
(* The loop of calculateBloodProperties                                    *)
(***************************************************************************)
\* C21: for every flow rate, diameter and hematocrit the pair (shearRate,
\* viscosity) of calculateBloodProperties is at a fixed point from the first
\* pass of its loop on: the pair after pass k+1 equals the pair after pass k
\* for every k from 1 to 4, so the last two passes differ by 0 < 1e-6, and
\* the pair returned is the pair after pass 5
C21_IterationFixedPoint ==
  LET flowRate_m3s == ToM3s(call.flowRate_mLmin)
      radius_m == Mul(Div(call.diameter_mm, I(2)), D(1, -3))
      pass == [k \in 1..5 |-> BloodIteration(k, flowRate_m3s, radius_m, call.hct)]
  IN BloodReturned =>
       /\ \A k \in 1..4 : pass[k + 1] = pass[k]
       /\ Lt(FAbs(Sub(pass[5].viscosity, pass[4].viscosity)), D(1, -6))
       /\ Lt(FAbs(Sub(pass[5].shearRate, pass[4].shearRate)), D(1, -6))
       /\ ret.shearRate = pass[5].shearRate
       /\ ret.viscosity = pass[5].viscosity

\* blood properties returned for a positive flow, where the first pass moved
\* both values away from their initial estimates
C21_Witness ==
  /\ BloodReturned
  /\ call.flowRate_mLmin = I(600)
  /\ call.hct = I(40)
  /\ Gt(ret.shearRate, Zero)
  /\ ret.viscosity # CARREAU.mu_inf

(***************************************************************************)
(* Regions of the artery lower wall                                        *)
(***************************************************************************)
\* C22: a wall point of the artery lower wall is tagged anastomosis_floor
\* exactly when its horizontal distance from the anastomosis point is below
\* 1.5 times the artery radius
C22_FloorWithinOneAndAHalfRadii ==
  LET arteryRadius == Mul(Div(params.arteryDiameter, I(2)), CANVAS.vesselScale)
  IN GeometryReturned =>
       \A k \in 1..Len(ret.wallPoints) :
         ret.wallPoints[k].contour = "arteryLower" =>
           (Lt(FAbs(Sub(ret.wallPoints[k].point.x, GeoCx)), Mul(arteryRadius, D(15, -1)))
              <=> ret.wallPoints[k].regionType = "anastomosis_floor")

C24_OSIModelSelection ==
  \A w \in LastDatum :
    LET region == w.point.regionType
        recirculating ==
          \/ region = "anastomosis_floor"
          \/ region = "vein_inner" /\ Gt(params.anastomosisAngle, I(30))
        directional ==
          FMin(FMax(Mul(D(5, -1), Sub(I(1), ReversalRatio(local.waveform, local.angleRad))), Zero), D(5, -1))
        unidirectional == OSIUnidirectional(local.waveform)
        Close(a, b) == Le(FAbs(Sub(a, b)), D(1, -3))
    IN /\ ~recirculating => Le(w.data.osi, D(15, -2))
       /\ (Gt(params.bloodFlowRate, Zero) /\ ~recirculating) =>
            Close(w.data.osi, unidirectional)
       /\ (Gt(params.bloodFlowRate, Zero) /\ recirculating) =>
            /\ Close(w.data.osi, directional)
            /\ ~Close(w.data.osi, unidirectional)

\* the loop has just computed, at exactly 30 degrees and under a positive
\* flow, the OSI of a vein_inner wall point; the result it extends already
\* holds an anastomosis_floor point with an OSI above 0.15
C24_Witness ==
  /\ pc = "wall"
  /\ params.anastomosisAngle = I(30)
  /\ Gt(params.bloodFlowRate, Zero)
  /\ \E w \in LastDatum :
       w.point.regionType = "vein_inner" /\ Le(w.data.osi, D(15, -2))
  /\ \E k \in 1..Len(local.wallWSS) :
       /\ local.wallWSS[k].point.regionType = "anastomosis_floor"
       /\ Gt(local.wallWSS[k].data.osi, D(15, -2))

(***************************************************************************)
(* The baseline of a wall point                                            *)
(***************************************************************************)
\* C25: a wall point uses the vein-derived baseline WSS exactly when its
\* region tag is vein_outer or vein_inner, and the artery-derived baseline
\* otherwise; and every wall point sampled from the vein outer or the vein
\* inner wall uses the vein-derived baseline.  The baseline a point used is
\* read off its TAWSS, which is baseline * correction * spatialVariation
\* for a waveform of mean 1 (compared to 1 percent, under a positive flow).
C25_VeinWallUsesVeinBaseline ==
  \A w \in LastDatum :
    LET correction ==
          getRegionCorrectionFactor(w.point.regionType, local.angleRad, local.diameterRatio)
        spatialVariation ==
          Add(I(1), Mul(D(1, -1), FSin(Mul(Mul(w.point.paramPosition, PI), I(4)))))
        used == Div(w.data.tawss, Mul(correction, spatialVariation))
        Uses(baseWSS) == Le(FAbs(Sub(used, baseWSS)), Mul(D(1, -2), baseWSS))
    IN Gt(params.bloodFlowRate, Zero) =>
         /\ w.point.regionType \in {"vein_outer", "vein_inner"} <=> Uses(local.baseWSS_vein)
         /\ w.point.regionType \notin {"vein_outer", "vein_inner"} <=> Uses(local.baseWSS_artery)
         /\ w.point.contour \in {"veinOuter", "veinInner"} => Uses(local.baseWSS_vein)

(***************************************************************************)
(* The 12-week projection                                                  *)
(***************************************************************************)
\* C26: predictTimeline returns exactly 13 entries, of week 0, 1, ..., 12 in
\* this order; along them the probability never decreases and never exceeds
\* 0.95, and the flow rate never decreases
C26_TimelineMonotoneCapped ==
  (pc = "done" /\ call.fn = "predictTimeline") =>
    /\ Len(ret) = 13
    /\ \A k \in 1..Len(ret) :
         /\ ret[k].week = I(k - 1)
         /\ Le(ret[k].probability, D(95, -2))
    /\ \A k \in 1..(Len(ret) - 1) :
         /\ Le(ret[k].probability, ret[k + 1].probability)
         /\ Le(ret[k].flowRate, ret[k + 1].flowRate)

\* a timeline returned for a prediction of probability 0.5, which rises
\* strictly from week 0 to week 12 without reaching the ceiling, as does
\* the flow rate
C26_Witness ==
  /\ pc = "done"
  /\ call.fn = "predictTimeline"
  /\ call.initialPrediction.score = I(50)
  /\ Lt(ret[1].probability, ret[13].probability)
  /\ Lt(ret[13].probability, D(95, -2))
  /\ Lt(ret[1].flowRate, ret[13].flowRate)

\* C27: the timeline starts at the prediction: the probability of the
\* week-0 entry of predictTimeline equals the probability of the
\* prediction it was computed from
C27_TimelineStartsAtPrediction ==
  (pc = "done" /\ call.fn = "predictTimeline") =>
    ret[1].probability = call.initialPrediction.probability

(***************************************************************************)
(* No risk factor, no low score                                            *)
(***************************************************************************)
\* C28: whenever the list of risk factors predictMaturation returns is
\* empty, the score is above 50 and the probability above 0.5
C28_NoRiskFactorMeansMature ==
  (PredictionReturned /\ ret.riskFactors = <<>>) =>
    /\ Gt(ret.score, I(50))
    /\ Gt(ret.probability, D(5, -1))

\* a prediction returned without a risk factor for inputs that sit on every
\* threshold: vein 2.0, artery 1.5, flow 400, TAWSS 0.5, OSI 0.25, angle 70
\* and hematocrit 0.30, the lowest score such inputs can get
C28_Witness ==
  /\ PredictionReturned
  /\ ret.riskFactors = <<>>
  /\ params.veinDiameter = I(2)
  /\ params.arteryDiameter = D(15, -1)
  /\ params.anastomosisAngle = I(70)
  /\ params.hematocrit = D(30, -2)
  /\ call.metrics.totalFlowRate = I(400)
  /\ call.metrics.tawss = D(5, -1)
  /\ call.metrics.osi = D(25, -2)
  /\ ret.score = I(64)

(***************************************************************************)
(* SimulatorPanel catches up with its parameters                           *)
(***************************************************************************)
\* the geometry, metrics and wallWSS of the state are those the effect
\* computes from the current params
PanelCurrent ==
  IF call.state.metrics = <<>> THEN FALSE
  ELSE /\ call.state.snapshot = <<params>>
       /\ call.state.geometry[1].arteryDiameter = params.arteryDiameter
       /\ call.state.geometry[1].veinDiameter = params.veinDiameter
       /\ call.state.geometry[1].anastomosisAngle = params.anastomosisAngle
       /\ call.state.metrics[1].totalFlowRate = params.baseFlowRate
       /\ Len(call.state.wallWSS) = Len(call.state.geometry[1].wallPoints)

\* C29: whenever the stored geometry, metrics and wallWSS are not those of
\* the current params (at the start, and after a parameter change), they
\* eventually are, the pending effect being run; once they are, they stay
\* so over every step that is not a parameter change; and a change of the
\* display mode alone leaves them as they are and makes no effect due
C29_PanelEventuallyConsistent ==
  /\ (~PanelCurrent) ~> PanelCurrent
  /\ [][(PanelCurrent /\ params' = params) => PanelCurrent']_PanelPosition
  /\ [][(call'.displayMode # call.displayMode) => (call'.state = call.state /\ ~call'.effectDue /\ params' = params)]_PanelPosition

\* the panel idle on the results of a changed vein diameter, shown in the
\* OSI display mode
C29_Witness ==
  /\ pc = "idle"
  /\ params.veinDiameter = D(15, -1)
  /\ call.displayMode = "osi"
  /\ call.state.metrics # <<>>
  /\ call.state.snapshot = <<params>>
  /\ call.rendered[1].displayMode = "osi"
  /\ ~call.effectDue

\* step 4 of a second run of calculateHemodynamics, at heartRate 120: its
\* waveform, by the systolicRatio of the run
SecondRunWaveform ==
  [r \in HemoSystolicRatios |->
     generatePulsatileWaveform(I(120), r, hemoWaveformSteps)]

\* C30: the TAWSS of a wall point does not depend on the pulsatile waveform.
\* Up to the rounding of the arithmetic, the TAWSS the loop computes equals
\* |baseWSS * regionCorrection * spatialVariation|; a second run that differs
\* only in heartRate and systolicRatio has the same locals but the
\* waveform and gives the same TAWSS at the wall point; and the waveform of
\* another heartRate at the same systolicRatio is the same waveform
C30_TAWSSIndependentOfWaveform ==
  \A w \in LastDatum :
    LET wp == w.point
        Near(a, b) == Le(FAbs(Sub(a, b)), Mul(SumTol, FAbs(b)))
        baseWSS == IF IsVein(wp.regionType) THEN local.baseWSS_vein
                   ELSE local.baseWSS_artery
        spatialVariation ==
          Add(I(1), Mul(D(1, -1), FSin(Mul(Mul(wp.paramPosition, PI), I(4)))))
        scale ==
          Mul(Mul(baseWSS,
                  getRegionCorrectionFactor(wp.regionType, local.angleRad,
                                            local.diameterRatio)),
              spatialVariation)
        otherParams ==
          [params EXCEPT !.heartRate = I(120),
                         !.systolicRatio =
                           IF @ = D(60, -2) THEN D(10, -2) ELSE D(60, -2)]
        otherWaveform == SecondRunWaveform[otherParams.systolicRatio]
        otherRate == SecondRunWaveform[params.systolicRatio]
        other == WallDatum(wp, [local EXCEPT !.waveform = otherWaveform])
    IN /\ Near(w.data.tawss, FAbs(scale))
       /\ Near(other.data.tawss, w.data.tawss)
       /\ Len(local.wallWSS) = 1 =>
            /\ [HemoLocals(otherParams) EXCEPT !.waveform = local.waveform]
                 = [local EXCEPT !.wallWSS = <<>>]
            /\ otherWaveform # local.waveform
            /\ Len(otherRate) = Len(local.waveform)
            /\ \A i \in 1..Len(otherRate) :
                 Near(otherRate[i], local.waveform[i])

\* C30 witness: a vein wall point with a positive TAWSS computed under the
\* strongest systolic waveform, a sample of which the floor had raised
C30_Witness ==
  /\ params.systolicRatio = D(60, -2)
  /\ \E w \in LastDatum :
       /\ w.point.regionType = "vein_inner"
       /\ Gt(w.data.tawss, I(1))
  /\ pc = "wall"
  /\ \E i \in 1..hemoWaveformSteps :
       WaveSample(i - 1, params.heartRate, params.systolicRatio,
                  hemoWaveformSteps) = MinFlow

====
